---- MODULE Spec2Model ----
(***************************************************************************)
(* EdgeClaw core: the ECNP v1.1 codec, the session manager, the policy     *)
(* engine and the sync message layer, modelled from edgeclaw-core/src.     *)
(***************************************************************************)
EXTENDS Integers, Sequences, FiniteSets, TLC

VARIABLES
    ecnp_last,      \* the last codec call: operation, inputs, result
    policy_engine,  \* EdgeClawEngine.policy_engine: capabilities, default_deny
    policy_last,    \* the last evaluate_capability call: inputs, result
    sessions,       \* SessionManager.sessions: session id -> Session
    now,            \* chrono::Utc::now(), in seconds
    emitted,        \* per minted session id, the frames its encrypts returned, in order
    sess_last,      \* what the last step did: the session call, its inputs, its result
    session_lock,   \* owner of EdgeClawEngine.session_manager's Mutex, or NoThread
    threads,        \* per caller thread, its position in encrypt_message and its locals
    sync_last,      \* the last sync message call: operation, inputs, result
    client,         \* a SyncClient used directly
    conn,           \* the connect call running on client: its position and locals
    client_last,    \* what the last step on client was: the call, its inputs, its result
    sync_client,    \* EdgeClawEngine.sync_client: None, or Some(the client init_sync installed)
    econn,          \* the sync_connect call in flight: its temporary client and locals
    engine_last,    \* the last sync call on the engine: the call and its result
    identity_manager, \* EdgeClawEngine.identity_manager: the three Options of IdentityManager
    identity_lock,  \* owner of EdgeClawEngine.identity_manager's Mutex, or NoThread
    callers,        \* per caller thread, its position in an identity-touching engine call and its locals
    id_last,        \* the last such call that returned: thread, call, inputs, result
    last_generated, \* history: None, or Some(the identity the last generate_identity produced)
    peer_manager,   \* EdgeClawEngine.peer_manager: peer id -> PeerEntry
    peer_last,      \* the last peer call: operation, inputs, result
    strategy_last,  \* the last determine_connection_strategy call: inputs, result
    strategy_prev,  \* the determine_connection_strategy call before the last one
    managers,       \* the SessionManagers of the two peers of a channel: side -> sessions
    wire,           \* the frames the two peers' encrypts returned: sender, session, plaintext, frame
    chan_last,      \* the last call on one of the two peers: side, operation, inputs, result
    lock_owner,     \* per component Mutex of the engine, the thread holding its guard, or NoThread
    lock_calls,     \* per caller thread, the engine method it is in or was last in, its position (0: not in it), whether a `?` returned early
    wide_session,   \* one Session with its u64 fields at full width: eight big-endian bytes each
    wide_last       \* the last encrypt on wide_session: its plaintext and what it returned

codecVars == <<ecnp_last>>
policyVars == <<policy_engine, policy_last>>
sessionVars == <<sessions, now, emitted, sess_last>>
threadVars == <<session_lock, threads>>
syncVars == <<sync_last>>
clientVars == <<client, conn, client_last>>
facadeVars == <<sync_client, econn, engine_last>>
identityVars == <<identity_manager, identity_lock, callers, id_last, last_generated>>
peerVars == <<peer_manager, peer_last>>
strategyVars == <<strategy_last, strategy_prev>>
channelVars == <<managers, wire, chan_last>>
lockVars == <<lock_owner, lock_calls>>
nonceVars == <<wide_session, wide_last>>
nonLockVars == <<codecVars, policyVars, sessionVars, threadVars, syncVars, clientVars, facadeVars,
                 identityVars, peerVars, strategyVars, channelVars, nonceVars>>
nonNonceVars == <<codecVars, policyVars, sessionVars, threadVars, syncVars, clientVars, facadeVars,
                  identityVars, peerVars, strategyVars, channelVars, lockVars>>
nonStrategyVars == <<codecVars, policyVars, sessionVars, threadVars, syncVars, clientVars, facadeVars,
                     identityVars, peerVars, channelVars, lockVars, nonceVars>>
nonChannelVars == <<codecVars, policyVars, sessionVars, threadVars, syncVars, clientVars, facadeVars,
                    identityVars, peerVars, strategyVars, lockVars, nonceVars>>
nonCodecVars == <<policyVars, sessionVars, threadVars, syncVars, clientVars, facadeVars, identityVars, peerVars, strategyVars, channelVars, lockVars, nonceVars>>
nonPolicyVars == <<codecVars, sessionVars, threadVars, syncVars, clientVars, facadeVars, identityVars, peerVars, strategyVars, channelVars, lockVars, nonceVars>>
nonSessionVars == <<codecVars, policyVars, threadVars, syncVars, clientVars, facadeVars, identityVars, peerVars, strategyVars, channelVars, lockVars, nonceVars>>
nonClientVars == <<codecVars, policyVars, sessionVars, threadVars, syncVars, facadeVars, identityVars, peerVars, strategyVars, channelVars, lockVars, nonceVars>>
nonFacadeVars == <<codecVars, policyVars, sessionVars, threadVars, syncVars, clientVars, identityVars, peerVars, strategyVars, channelVars, lockVars, nonceVars>>
nonIdentityVars == <<codecVars, policyVars, syncVars, clientVars, facadeVars, peerVars, strategyVars, channelVars, lockVars, nonceVars>>
nonPeerVars == <<codecVars, policyVars, sessionVars, threadVars, syncVars, clientVars, facadeVars, identityVars, strategyVars, channelVars, lockVars, nonceVars>>
nonSyncVars == <<codecVars, policyVars, sessionVars, threadVars, clientVars, facadeVars, identityVars, peerVars, strategyVars, channelVars, lockVars, nonceVars>>
vars == <<ecnp_last, policy_engine, policy_last, sessions, now, emitted, sess_last,
          session_lock, threads, sync_last,
          client, conn, client_last, sync_client, econn, engine_last,
          identity_manager, identity_lock, callers, id_last, last_generated,
          peer_manager, peer_last, strategy_last, strategy_prev, managers, wire, chan_last,
          lock_owner, lock_calls, wide_session, wide_last>>

(***************************************************************************)
(* Bounds of the model                                                     *)
(***************************************************************************)
\* longest run of explicitly chosen payload bytes
MaxHead == 2
\* session identifiers that can be minted
MaxSessions == 1
\* encrypts per session
MaxCounter == 2
\* successful decrypts per session
MaxReceived == 1
\* clock instants after the first session's last valid second
MaxLate == 2
\* calls counted by messages_sent and by messages_received of a sync client
MaxMessages == 1
\* generate_identity calls in one run
MaxIdentities == 2
\* frames each session of the two-peer channel sends, and opens
MaxExchanged == 1
\* encrypts on the session whose counters are kept at their full width
MaxWide == 3

(***************************************************************************)
(* Results and errors (error.rs)                                           *)
(***************************************************************************)
EdgeClawError ==
    {"CryptoError", "ConnectionError", "PolicyDenied", "InvalidCapability",
     "SessionExpired", "InvalidParameter", "TimeoutError",
     "SerializationError", "InternalError"}

Ok(v) == [ok |-> TRUE, val |-> v]
Err(e) == [ok |-> FALSE, err |-> e]
IsErr(r, e) == ~r.ok /\ r.err = e

Max2(a, b) == IF a > b THEN a ELSE b
Min2(a, b) == IF a < b THEN a ELSE b

(***************************************************************************)
(* Byte strings.  A byte string is a sequence of runs; a run is n copies   *)
(* of one byte, or n bytes (from offset off) of the JSON text of a         *)
(* document or of the output of an AEAD seal.  Run-length form lets a      *)
(* 1 MiB payload be a value of the model.  Norm is the canonical form: no  *)
(* empty run, no two adjacent runs of the same byte, so that equal byte    *)
(* strings are equal values.                                               *)
(***************************************************************************)
NoDoc == [type |-> "none"]

ByteRun(b, n) == [kind |-> "byte", b |-> b, doc |-> NoDoc, off |-> 0, n |-> n, full |-> 0]
JsonRun(doc, len) == [kind |-> "json", b |-> 0, doc |-> doc, off |-> 0, n |-> len, full |-> len]
AeadRun(doc, len) == [kind |-> "aead", b |-> 0, doc |-> doc, off |-> 0, n |-> len, full |-> len]

RECURSIVE NormAcc(_, _)
NormAcc(acc, s) ==
    IF s = <<>> THEN acc
    ELSE LET r == Head(s)
             k == Len(acc)
         IN  IF r.n = 0 THEN NormAcc(acc, Tail(s))
             ELSE IF k > 0 /\ acc[k].kind = "byte" /\ r.kind = "byte" /\ acc[k].b = r.b
                  THEN NormAcc([acc EXCEPT ![k].n = acc[k].n + r.n], Tail(s))
                  ELSE NormAcc(Append(acc, r), Tail(s))

Norm(s) == NormAcc(<<>>, s)

\* Vec<u8> from explicit bytes
Bytes(seq) == Norm([i \in 1..Len(seq) |-> ByteRun(seq[i], 1)])

\* n copies of byte b
Fill(b, n) == Norm(<<ByteRun(b, n)>>)

\* slice.len()
RECURSIVE BLen(_)
BLen(s) == IF s = <<>> THEN 0 ELSE Head(s).n + BLen(Tail(s))

\* the first bytes of the JSON text serde_json writes for an internally tagged enum
JsonPrefix == <<123, 34, 116, 121, 112, 101, 34, 58, 34>>

\* data[i], 0-based; defined for i < BLen(s)
RECURSIVE At(_, _)
At(s, i) ==
    LET r == Head(s)
    IN  IF i < r.n
        THEN CASE r.kind = "byte" -> r.b
               [] r.kind = "json" -> JsonPrefix[r.off + i + 1]
        ELSE At(Tail(s), i - r.n)

RECURSIVE SliceR(_, _, _)
SliceR(s, from, to) ==
    IF s = <<>> \/ to <= 0 THEN <<>>
    ELSE LET r == Head(s)
             lo == Max2(from, 0)
             hi == Min2(to, r.n)
             part == IF lo < hi
                     THEN <<[r EXCEPT !.off = IF r.kind = "byte" THEN 0 ELSE r.off + lo,
                                      !.n = hi - lo]>>
                     ELSE <<>>
         IN  part \o SliceR(Tail(s), from - r.n, to - r.n)

\* data[from..to]
Slice(s, from, to) == Norm(SliceR(s, from, to))

\* extend_from_slice
Concat(a, b) == Norm(a \o b)

\* the bytes of a short byte string that holds only plain bytes
ToSeq(s) == [i \in 1..BLen(s) |-> At(s, i - 1)]

(***************************************************************************)
(* protocol.rs: MessageType                                                *)
(***************************************************************************)
MessageType == {"Handshake", "Data", "Control", "Heartbeat", "Ack", "Error"}

\* `msg_type as u8`
MessageTypeCode(mt) ==
    CASE mt = "Handshake" -> 1
      [] mt = "Data" -> 2
      [] mt = "Control" -> 3
      [] mt = "Heartbeat" -> 4
      [] mt = "Ack" -> 5
      [] mt = "Error" -> 6

\* MessageType::try_from with a range test that lets the code after Error through
MessageType_try_from_range(v) ==
    IF v >= 1 /\ v <= 7 THEN Ok("Handshake") ELSE Err("InvalidParameter")

\* MessageType::try_from(u8)
MessageType_try_from(v) ==
    CASE v = 1 -> Ok("Handshake")
      [] v = 2 -> Ok("Data")
      [] v = 3 -> Ok("Control")
      [] v = 4 -> Ok("Heartbeat")
      [] v = 5 -> Ok("Ack")
      [] v = 6 -> Ok("Error")
      [] OTHER -> Err("InvalidParameter")

(***************************************************************************)
(* ecnp.rs: EcnpCodec                                                      *)
(***************************************************************************)
ECNP_VERSION == 1
HEADER_SIZE == 6
MAX_PAYLOAD_SIZE == 1048576

\* the length written least significant byte first (to_le_bytes)
to_le_bytes(n) ==
    <<n % 256, (n \div 256) % 256, (n \div 65536) % 256, n \div 16777216>>

\* u32::to_be_bytes; the argument is below 2^31 wherever the codec calls it
to_be_bytes(n) ==
    <<n \div 16777216, (n \div 65536) % 256, (n \div 256) % 256, n % 256>>

\* u32::from_be_bytes
from_be_bytes(b) == b[1] * 16777216 + b[2] * 65536 + b[3] * 256 + b[4]

\* encode with the size test off by one (>= for >)
encode_ge(msg_type, payload) ==
    IF BLen(payload) >= MAX_PAYLOAD_SIZE
    THEN Err("InvalidParameter")
    ELSE Ok(Concat(Bytes(<<ECNP_VERSION, MessageTypeCode(msg_type)>> \o to_be_bytes(BLen(payload))),
                   payload))

\* EcnpCodec::encode
encode(msg_type, payload) ==
    IF BLen(payload) > MAX_PAYLOAD_SIZE
    THEN Err("InvalidParameter")
    ELSE LET length == BLen(payload)
             header == <<ECNP_VERSION, MessageTypeCode(msg_type)>> \o to_be_bytes(length)
         IN  Ok(Concat(Bytes(header), payload))

\* decode that takes everything behind the header as the payload
decode_to_end(data) ==
    IF BLen(data) < HEADER_SIZE THEN Err("InvalidParameter")
    ELSE LET version == At(data, 0)
             msg_type == At(data, 1)
             length == from_be_bytes(<<At(data, 2), At(data, 3), At(data, 4), At(data, 5)>>)
         IN  IF version # ECNP_VERSION THEN Err("InvalidParameter")
             ELSE IF ~MessageType_try_from(msg_type).ok THEN Err("InvalidParameter")
             ELSE IF length > MAX_PAYLOAD_SIZE THEN Err("InvalidParameter")
             ELSE IF BLen(data) < HEADER_SIZE + length THEN Err("InvalidParameter")
             ELSE Ok([version |-> version,
                      msg_type |-> msg_type,
                      payload |-> Slice(data, HEADER_SIZE, BLen(data))])

\* EcnpCodec::decode
decode(data) ==
    IF BLen(data) < HEADER_SIZE THEN Err("InvalidParameter")
    ELSE LET version == At(data, 0)
             msg_type == At(data, 1)
             length == from_be_bytes(<<At(data, 2), At(data, 3), At(data, 4), At(data, 5)>>)
         IN  IF version # ECNP_VERSION THEN Err("InvalidParameter")
             ELSE IF ~MessageType_try_from(msg_type).ok THEN Err("InvalidParameter")
             ELSE IF length > MAX_PAYLOAD_SIZE THEN Err("InvalidParameter")
             ELSE IF BLen(data) < HEADER_SIZE + length THEN Err("InvalidParameter")
             ELSE Ok([version |-> version,
                      msg_type |-> msg_type,
                      payload |-> Slice(data, HEADER_SIZE, HEADER_SIZE + length)])

(***************************************************************************)
(* policy.rs: RiskLevel, Role, PolicyEngine.  A role string is a sequence  *)
(* of characters, so that to_lowercase acts on it; a capability name is    *)
(* only ever compared, and is an atomic string.                            *)
(***************************************************************************)
\* `RiskLevel as u8`
RiskLevel == [None |-> 0, Low |-> 1, Medium |-> 2, High |-> 3]

Role == {"Viewer", "Operator", "Admin", "Owner"}

\* max_allowed_risk with Admin given the Owner's ceiling
max_allowed_risk_admin_high(role) ==
    CASE role = "Viewer" -> RiskLevel.None
      [] role = "Operator" -> RiskLevel.Low
      [] role = "Admin" -> RiskLevel.High
      [] role = "Owner" -> RiskLevel.High

\* Role::max_allowed_risk
max_allowed_risk(role) ==
    CASE role = "Viewer" -> RiskLevel.None
      [] role = "Operator" -> RiskLevel.Low
      [] role = "Admin" -> RiskLevel.Medium
      [] role = "Owner" -> RiskLevel.High

UpperCase == <<"A", "B", "C", "D", "E", "F", "G", "H", "I", "J", "K", "L", "M",
               "N", "O", "P", "Q", "R", "S", "T", "U", "V", "W", "X", "Y", "Z">>
LowerCase == <<"a", "b", "c", "d", "e", "f", "g", "h", "i", "j", "k", "l", "m",
               "n", "o", "p", "q", "r", "s", "t", "u", "v", "w", "x", "y", "z">>

\* char::to_lowercase: ASCII capitals, the Kelvin sign (U+212A) and the
\* dotted capital I (U+0130, which becomes i followed by U+0307)
char_to_lowercase(c) ==
    IF \E i \in 1..26 : UpperCase[i] = c
    THEN <<LowerCase[CHOOSE i \in 1..26 : UpperCase[i] = c]>>
    ELSE IF c = "U+212A" THEN <<"k">>
    ELSE IF c = "U+0130" THEN <<"i", "U+0307">>
    ELSE <<c>>

\* str::to_lowercase
RECURSIVE to_lowercase(_)
to_lowercase(s) ==
    IF s = <<>> THEN <<>> ELSE char_to_lowercase(Head(s)) \o to_lowercase(Tail(s))

\* the four role names parse_role matches
VIEWER == <<"v", "i", "e", "w", "e", "r">>
OPERATOR == <<"o", "p", "e", "r", "a", "t", "o", "r">>
ADMIN == <<"a", "d", "m", "i", "n">>
OWNER == <<"o", "w", "n", "e", "r">>

\* role strings handed to evaluate
RS_Viewer == <<"V", "i", "e", "w", "e", "r">>
RS_VIEWER == <<"V", "I", "E", "W", "E", "R">>
RS_OPERATOR == <<"O", "P", "E", "R", "A", "T", "O", "R">>
RS_AdMiN == <<"A", "d", "M", "i", "N">>
RS_OWNER == <<"O", "W", "N", "E", "R">>
RS_Owner == <<"O", "w", "n", "e", "r">>
RS_hacker == <<"h", "a", "c", "k", "e", "r">>
RS_empty == <<>>
RS_own == <<"o", "w", "n">>
RS_owners == <<"o", "w", "n", "e", "r", "s">>
RS_space_owner == <<" ", "o", "w", "n", "e", "r">>
RS_ADMIN_dotted == <<"A", "D", "M", "U+0130", "N">>
RS_root == <<"r", "o", "o", "t">>

\* parse_role that matches the string as given
parse_role_exact(s) ==
    CASE s = VIEWER -> Ok("Viewer")
      [] s = OPERATOR -> Ok("Operator")
      [] s = ADMIN -> Ok("Admin")
      [] s = OWNER -> Ok("Owner")
      [] OTHER -> Err("InvalidParameter")

\* Role::parse_role
parse_role(s) ==
    LET l == to_lowercase(s)
    IN  CASE l = VIEWER -> Ok("Viewer")
          [] l = OPERATOR -> Ok("Operator")
          [] l = ADMIN -> Ok("Admin")
          [] l = OWNER -> Ok("Owner")
          [] OTHER -> Err("InvalidParameter")

Capability(name, risk, desc) == [name |-> name, risk_level |-> risk, description |-> desc]

\* PolicyEngine::register_default_capabilities
register_default_capabilities ==
    <<Capability("status_query", RiskLevel.None, "Query device status"),
      Capability("heartbeat", RiskLevel.None, "Send/receive heartbeat"),
      Capability("file_read", RiskLevel.Low, "Read files from device"),
      Capability("sensor_read", RiskLevel.Low, "Read sensor data"),
      Capability("clipboard_read", RiskLevel.Low, "Read clipboard content"),
      Capability("file_write", RiskLevel.Medium, "Write files to device"),
      Capability("config_change", RiskLevel.Medium, "Modify device configuration"),
      Capability("clipboard_write", RiskLevel.Medium, "Write to clipboard"),
      Capability("shell_exec", RiskLevel.High, "Execute shell commands"),
      Capability("firmware_update", RiskLevel.High, "Update device firmware"),
      Capability("system_reboot", RiskLevel.High, "Reboot device")>>

\* PolicyEngine::new that starts with default_deny off
PolicyEngine_new_allow ==
    [capabilities |-> register_default_capabilities, default_deny |-> FALSE]

\* PolicyEngine::new
PolicyEngine_new ==
    [capabilities |-> register_default_capabilities, default_deny |-> TRUE]

\* self.capabilities.iter().find(|c| c.name == capability_name): index of the first match, 0 for None
find_capability(capabilities, capability_name) ==
    IF \E i \in 1..Len(capabilities) : capabilities[i].name = capability_name
    THEN CHOOSE i \in 1..Len(capabilities) :
            /\ capabilities[i].name = capability_name
            /\ \A j \in 1..(i - 1) : capabilities[j].name # capability_name
    ELSE 0

\* PolicyEngine::evaluate
evaluate(self, capability_name, role_str) ==
    LET parsed == parse_role(role_str)
        cap == find_capability(self.capabilities, capability_name)
    IN  IF ~parsed.ok THEN Err(parsed.err)
        ELSE IF cap # 0
        THEN LET capability == self.capabilities[cap]
                 max_risk == max_allowed_risk(parsed.val)
                 allowed == capability.risk_level <= max_risk
                 risk_u8 == capability.risk_level
             IN  Ok([allowed |-> allowed,
                     reason |-> IF allowed
                                THEN [text |-> "allowed for capability", role |-> role_str,
                                      capability |-> capability_name, risk |-> risk_u8]
                                ELSE [text |-> "denied for capability", role |-> role_str,
                                      capability |-> capability_name, risk |-> risk_u8,
                                      max |-> max_risk],
                     risk_level |-> risk_u8])
        ELSE IF self.default_deny
        THEN Ok([allowed |-> FALSE,
                 reason |-> [text |-> "Unknown capability, default deny",
                             capability |-> capability_name],
                 risk_level |-> 3])
        ELSE Ok([allowed |-> TRUE,
                 reason |-> [text |-> "Unknown capability, default allow (not recommended)",
                             capability |-> capability_name],
                 risk_level |-> 0])

(***************************************************************************)
(* Inputs of the policy engine                                             *)
(***************************************************************************)
CatalogueNames ==
    {"status_query", "heartbeat", "file_read", "sensor_read", "clipboard_read",
     "file_write", "config_change", "clipboard_write", "shell_exec",
     "firmware_update", "system_reboot"}

CapabilityNames ==
    CatalogueNames \cup {"launch_missiles", "Shell_Exec", "SHELL_EXEC", "shell_exec ", "status", ""}

RoleStrings ==
    {VIEWER, OPERATOR, ADMIN, OWNER,
     RS_Viewer, RS_VIEWER, RS_OPERATOR, RS_AdMiN, RS_OWNER, RS_Owner,
     RS_hacker, RS_empty, RS_own, RS_owners, RS_space_owner, RS_ADMIN_dotted, RS_root}

(***************************************************************************)
(* session.rs: Session, SessionManager.  X25519 and HKDF are symbolic: a   *)
(* public key names its secret, the shared secret of a secret and a public *)
(* key is the unordered pair of the two secrets, and the derived key names *)
(* the shared secret and the info string.  AES-256-GCM is symbolic: the    *)
(* sealed bytes name key, nonce and plaintext, and open only under the     *)
(* same key and nonce with the tag intact.                                 *)
(***************************************************************************)
SessionState == {"Initiating", "Established", "Expired"}

\* Display for SessionState
SessionState_to_string(st) ==
    CASE st = "Initiating" -> "initiating"
      [] st = "Established" -> "established"
      [] st = "Expired" -> "expired"

\* PublicKey::from(&secret)
PublicKey(secret) == [pk_of |-> secret]

\* a key agreement whose result depends on which side computes it
diffie_hellman_directed(secret, remote_pk) == <<secret, remote_pk.pk_of>>

\* StaticSecret::diffie_hellman
diffie_hellman(secret, remote_pk) == {secret, remote_pk.pk_of}

\* Hkdf::<Sha256>::new(None, shared).expand(b"edgeclaw-session-v1", ..)
hkdf_expand(shared_secret) == [ikm |-> shared_secret, info |-> "edgeclaw-session-v1"]

TAG_SIZE == 16

\* Aes256Gcm::encrypt(nonce, plaintext): ciphertext and tag
aead_encrypt(key, nonce, plaintext) ==
    <<AeadRun([type |-> "aead", key |-> key, nonce |-> nonce, pt |-> plaintext, tag_ok |-> TRUE],
              BLen(plaintext) + TAG_SIZE)>>

\* an open that does not bind the nonce
aead_decrypt_any_nonce(key, nonce, sealed) ==
    IF /\ Len(sealed) = 1
       /\ sealed[1].kind = "aead"
       /\ sealed[1].off = 0
       /\ sealed[1].n = sealed[1].full
       /\ sealed[1].doc.key = key
       /\ sealed[1].doc.tag_ok
    THEN Ok(sealed[1].doc.pt)
    ELSE Err("CryptoError")

\* Aes256Gcm::decrypt(nonce, ciphertext_with_tag)
aead_decrypt(key, nonce, sealed) ==
    IF /\ Len(sealed) = 1
       /\ sealed[1].kind = "aead"
       /\ sealed[1].off = 0
       /\ sealed[1].n = sealed[1].full
       /\ sealed[1].doc.key = key
       /\ sealed[1].doc.nonce = nonce
       /\ sealed[1].doc.tag_ok
    THEN Ok(sealed[1].doc.pt)
    ELSE Err("CryptoError")

\* u64::to_be_bytes; the counter is below 2^31 in the model
to_be_bytes_u64(n) == <<0, 0, 0, 0>> \o to_be_bytes(n)

\* the nonce built from the counter after it was incremented
nonce_bytes_of_next(counter) == <<0, 0, 0, 0>> \o to_be_bytes_u64(counter + 1)

\* nonce_bytes[4..12].copy_from_slice(&counter.to_be_bytes())
nonce_bytes_of(counter) == <<0, 0, 0, 0>> \o to_be_bytes_u64(counter)

(***************************************************************************)
(* session.rs: the u64 fields of a Session at their full width.  A u64 is  *)
(* the sequence of its eight big-endian bytes.                             *)
(***************************************************************************)
U64_MAX == [i \in 1..8 |-> 255]
U64_ZERO == [i \in 1..8 |-> 0]

\* a < b on u64
u64_lt(a, b) == \E i \in 1..8 : a[i] < b[i] /\ \A j \in 1..(i - 1) : a[j] = b[j]

\* a + 1 below u64::MAX
u64_succ(a) ==
    LET i == CHOOSE k \in 1..8 : a[k] # 255 /\ \A j \in (k + 1)..8 : a[j] = 255
    IN  [j \in 1..8 |-> IF j < i THEN a[j] ELSE IF j = i THEN a[j] + 1 ELSE 0]

\* the thread panicked: "attempt to add with overflow"
Panic == [ok |-> FALSE, err |-> "panic"]

\* x += 1 on a u64: at u64::MAX a build with overflow checks (the dev
\* profile) panics, a build without them (the release profile) wraps to 0
add_assign_one(a, overflow_checks) ==
    IF a # U64_MAX THEN Ok(u64_succ(a))
    ELSE IF overflow_checks THEN Panic
    ELSE Ok(U64_ZERO)

\* a Session as create_session leaves it; `advanced` and `nonces` are history:
\* the number of encrypts the session went through before the recorded ones,
\* and the counters whose nonces the recorded encrypts used
WideSession_new ==
    [session_key |-> hkdf_expand(diffie_hellman("a", PublicKey("b"))),
     nonce_counter |-> U64_ZERO,
     messages_sent |-> U64_ZERO,
     advanced |-> U64_ZERO,
     nonces |-> <<>>]

\* SessionManager::encrypt on a session that is present and not expired
encrypt_wide(session, plaintext, overflow_checks) ==
    LET nonce_bytes == <<0, 0, 0, 0>> \o session.nonce_counter
        counter == add_assign_one(session.nonce_counter, overflow_checks)
        ciphertext == aead_encrypt(session.session_key, nonce_bytes, plaintext)
        result == Concat(Bytes(nonce_bytes), ciphertext)
        sent == add_assign_one(session.messages_sent, overflow_checks)
    IN  IF ~counter.ok THEN [session |-> session, res |-> Panic]
        ELSE IF ~sent.ok
        THEN [session |-> [session EXCEPT !.nonce_counter = counter.val], res |-> Panic]
        ELSE [session |-> [session EXCEPT !.nonce_counter = counter.val,
                                          !.messages_sent = sent.val,
                                          !.nonces = Append(@, session.nonce_counter)],
              res |-> Ok(result)]

SESSION_DURATION_SECS == 3600

\* Session::to_info
to_info(session) ==
    [session_id |-> session.session_id,
     peer_id |-> session.peer_id,
     state |-> SessionState_to_string(session.state),
     created_at |-> session.created_at,
     expires_at |-> session.expires_at,
     messages_sent |-> session.messages_sent,
     messages_received |-> session.messages_received]

\* is_expired with a strict comparison
is_expired_strict(session, t) == t > session.expires_at

\* Session::is_expired, t being Utc::now()
is_expired(session, t) == t >= session.expires_at

\* SessionManager::new
SessionManager_new == <<>>

\* a method of &mut SessionManager returns the manager's map and its result
Ret(map, res) == [sessions |-> map, res |-> res]

\* create_session that keeps one session per peer: it drops the peer's earlier sessions
create_session_per_peer(self, session_id, peer_id, local_secret, remote_public, t) ==
    LET shared_secret == diffie_hellman(local_secret, remote_public)
        session == [session_id |-> session_id,
                    peer_id |-> peer_id,
                    state |-> "Established",
                    session_key |-> hkdf_expand(shared_secret),
                    nonce_counter |-> 0,
                    created_at |-> t,
                    expires_at |-> t + SESSION_DURATION_SECS,
                    messages_sent |-> 0,
                    messages_received |-> 0]
        kept == {id \in DOMAIN self : self[id].peer_id # peer_id}
    IN  Ret([id \in kept \cup {session_id} |->
                IF id = session_id THEN session ELSE self[id]],
            Ok(to_info(session)))

\* SessionManager::create_session; session_id is the identifier Uuid::new_v4 drew
create_session(self, session_id, peer_id, local_secret, remote_public, t) ==
    LET shared_secret == diffie_hellman(local_secret, remote_public)
        session == [session_id |-> session_id,
                    peer_id |-> peer_id,
                    state |-> "Established",
                    session_key |-> hkdf_expand(shared_secret),
                    nonce_counter |-> 0,
                    created_at |-> t,
                    expires_at |-> t + SESSION_DURATION_SECS,
                    messages_sent |-> 0,
                    messages_received |-> 0]
    IN  Ret([id \in DOMAIN self \cup {session_id} |->
                IF id = session_id THEN session ELSE self[id]],
            Ok(to_info(session)))

\* SessionManager::encrypt
encrypt(self, session_id, plaintext, t) ==
    IF session_id \notin DOMAIN self THEN Ret(self, Err("InvalidParameter"))
    ELSE LET session == self[session_id]
         IN  IF is_expired(session, t)
             THEN Ret([self EXCEPT ![session_id].state = "Expired"], Err("SessionExpired"))
             ELSE LET nonce_bytes == nonce_bytes_of(session.nonce_counter)
                      ciphertext == aead_encrypt(session.session_key, nonce_bytes, plaintext)
                      result == Concat(Bytes(nonce_bytes), ciphertext)
                  IN  Ret([self EXCEPT ![session_id].nonce_counter = @ + 1,
                                       ![session_id].messages_sent = @ + 1],
                          Ok(result))

\* decrypt that looks the session up and checks its expiry before the frame's length
decrypt_lookup_first(self, session_id, ciphertext, t) ==
    IF session_id \notin DOMAIN self THEN Ret(self, Err("InvalidParameter"))
    ELSE LET session == self[session_id]
         IN  IF is_expired(session, t)
             THEN Ret([self EXCEPT ![session_id].state = "Expired"], Err("SessionExpired"))
             ELSE IF BLen(ciphertext) < 12 THEN Ret(self, Err("InvalidParameter"))
             ELSE LET nonce == ToSeq(Slice(ciphertext, 0, 12))
                      plaintext == aead_decrypt(session.session_key, nonce,
                                                Slice(ciphertext, 12, BLen(ciphertext)))
                  IN  IF ~plaintext.ok THEN Ret(self, Err("CryptoError"))
                      ELSE Ret([self EXCEPT ![session_id].messages_received = @ + 1],
                               Ok(plaintext.val))

\* SessionManager::decrypt
decrypt(self, session_id, ciphertext, t) ==
    IF BLen(ciphertext) < 12 THEN Ret(self, Err("InvalidParameter"))
    ELSE IF session_id \notin DOMAIN self THEN Ret(self, Err("InvalidParameter"))
    ELSE LET session == self[session_id]
         IN  IF is_expired(session, t)
             THEN Ret([self EXCEPT ![session_id].state = "Expired"], Err("SessionExpired"))
             ELSE LET nonce == ToSeq(Slice(ciphertext, 0, 12))
                      plaintext == aead_decrypt(session.session_key, nonce,
                                                Slice(ciphertext, 12, BLen(ciphertext)))
                  IN  IF ~plaintext.ok THEN Ret(self, Err("CryptoError"))
                      ELSE Ret([self EXCEPT ![session_id].messages_received = @ + 1],
                               Ok(plaintext.val))

\* SessionManager::get_session
get_session(self, session_id) ==
    IF session_id \in DOMAIN self THEN Ok(to_info(self[session_id]))
    ELSE Err("InvalidParameter")

\* SessionManager::active_sessions
active_sessions(self, t) ==
    {to_info(self[id]) : id \in {i \in DOMAIN self :
                                   self[i].state = "Established" /\ ~is_expired(self[i], t)}}

\* close_session that accepts an identifier it does not hold
close_session_idempotent(self, session_id) ==
    Ret([id \in DOMAIN self \ {session_id} |-> self[id]], Ok("unit"))

\* SessionManager::close_session
close_session(self, session_id) ==
    IF session_id \in DOMAIN self
    THEN Ret([id \in DOMAIN self \ {session_id} |-> self[id]], Ok("unit"))
    ELSE Ret(self, Err("InvalidParameter"))

\* cleanup_expired that goes by the state field: it drops the sessions marked Expired
cleanup_expired_by_state(self, t) ==
    LET kept == {id \in DOMAIN self : self[id].state # "Expired"}
    IN  Ret([id \in kept |-> self[id]], Cardinality(DOMAIN self) - Cardinality(kept))

\* SessionManager::cleanup_expired
cleanup_expired(self, t) ==
    LET kept == {id \in DOMAIN self : ~is_expired(self[id], t)}
    IN  Ret([id \in kept |-> self[id]], Cardinality(DOMAIN self) - Cardinality(kept))

(***************************************************************************)
(* sync.rs: SyncMessage.  A String is a byte string (its UTF-8 text); an   *)
(* f64 is named by the shortest decimal text that prints it, or is one of  *)
(* the non-finite values.  The JSON text of a message is a json run whose  *)
(* document lists the members of the object in the order serde_json writes *)
(* them, and whose length is the length of that text.                      *)
(***************************************************************************)
SYNC_CONFIG == 16
SYNC_REMOTE_EXEC == 17
SYNC_STATUS_PUSH == 18
SYNC_REMOTE_EXEC_RESULT == 19

F64(text) == [class |-> "finite", text |-> text]
F64_NAN == [class |-> "nan", text |-> "NaN"]
F64_INFINITY == [class |-> "inf", text |-> "inf"]

ConfigSync(config_hash, config_data) ==
    [variant |-> "ConfigSync", config_hash |-> config_hash, config_data |-> config_data]

RemoteExec(command, args) ==
    [variant |-> "RemoteExec", command |-> command, args |-> args]

StatusPush(cpu_usage, memory_usage, disk_usage, uptime_secs, n_active_sessions, ai_status) ==
    [variant |-> "StatusPush", cpu_usage |-> cpu_usage, memory_usage |-> memory_usage,
     disk_usage |-> disk_usage, uptime_secs |-> uptime_secs,
     active_sessions |-> n_active_sessions, ai_status |-> ai_status]

RemoteExecResult(command, exit_code, stdout, stderr) ==
    [variant |-> "RemoteExecResult", command |-> command, exit_code |-> exit_code,
     stdout |-> stdout, stderr |-> stderr]

\* #[serde(rename = ...)]: the text of the tag of each variant
TAG_config_sync == Bytes(<<99, 111, 110, 102, 105, 103, 95, 115, 121, 110, 99>>)
TAG_remote_exec == Bytes(<<114, 101, 109, 111, 116, 101, 95, 101, 120, 101, 99>>)
TAG_status_push == Bytes(<<115, 116, 97, 116, 117, 115, 95, 112, 117, 115, 104>>)
TAG_remote_exec_result ==
    Bytes(<<114, 101, 109, 111, 116, 101, 95, 101, 120, 101, 99, 95, 114, 101, 115, 117, 108, 116>>)

\* JSON values: a string, a number written with a fraction, an integer, null, an array
JString(s) == [j |-> "string", s |-> s, t |-> "", n |-> 0, a |-> <<>>]
JFloat(text) == [j |-> "float", s |-> <<>>, t |-> text, n |-> 0, a |-> <<>>]
JInt(n) == [j |-> "int", s |-> <<>>, t |-> "", n |-> n, a |-> <<>>]
JNull == [j |-> "null", s |-> <<>>, t |-> "", n |-> 0, a |-> <<>>]
JArray(a) == [j |-> "array", s |-> <<>>, t |-> "", n |-> 0, a |-> a]
Member(name, value) == [name |-> name, value |-> value]
JObject(members) == [type |-> "json", members |-> members]

\* serde_json writes a finite f64 as a number and a non-finite one as null
ser_f64(x) == IF x.class = "finite" THEN JFloat(x.text) ELSE JNull

\* #[derive(Serialize)] #[serde(tag = "type")]: the object serde_json writes
to_json(self) ==
    CASE self.variant = "ConfigSync" ->
           JObject(<<Member("type", JString(TAG_config_sync)),
                     Member("config_hash", JString(self.config_hash)),
                     Member("config_data", JString(self.config_data))>>)
      [] self.variant = "RemoteExec" ->
           JObject(<<Member("type", JString(TAG_remote_exec)),
                     Member("command", JString(self.command)),
                     Member("args", JArray([i \in 1..Len(self.args) |-> JString(self.args[i])]))>>)
      [] self.variant = "StatusPush" ->
           JObject(<<Member("type", JString(TAG_status_push)),
                     Member("cpu_usage", ser_f64(self.cpu_usage)),
                     Member("memory_usage", ser_f64(self.memory_usage)),
                     Member("disk_usage", ser_f64(self.disk_usage)),
                     Member("uptime_secs", JInt(self.uptime_secs)),
                     Member("active_sessions", JInt(self.active_sessions)),
                     Member("ai_status", JString(self.ai_status))>>)
      [] self.variant = "RemoteExecResult" ->
           JObject(<<Member("type", JString(TAG_remote_exec_result)),
                     Member("command", JString(self.command)),
                     Member("exit_code", JInt(self.exit_code)),
                     Member("stdout", JString(self.stdout)),
                     Member("stderr", JString(self.stderr))>>)

\* bytes serde_json writes for one byte of a string: \" \\ \b \t \n \f \r take two,
\* the other control characters six (\u00XX), every other byte itself
EscapeLen(b) ==
    IF b \in {34, 92, 8, 9, 10, 12, 13} THEN 2 ELSE IF b < 32 THEN 6 ELSE 1

\* length of the text of a string between its quotes
RECURSIVE EscapedLen(_)
EscapedLen(s) == IF s = <<>> THEN 0 ELSE Head(s).n * EscapeLen(Head(s).b) + EscapedLen(Tail(s))

\* length of the text serde_json writes for a value
RECURSIVE ValueTextLen(_)
ValueTextLen(v) ==
    CASE v.j = "string" -> 2 + EscapedLen(v.s)
      [] v.j = "float" -> Len(v.t)
      [] v.j = "int" -> Len(ToString(v.n))
      [] v.j = "null" -> 4
      [] v.j = "array" ->
           LET SumTo[k \in 0..Len(v.a)] ==
                   IF k = 0 THEN 0 ELSE SumTo[k - 1] + ValueTextLen(v.a[k])
           IN  2 + SumTo[Len(v.a)] + (IF Len(v.a) > 0 THEN Len(v.a) - 1 ELSE 0)

\* length of the text of an object: braces, commas, and "name":value per member
ObjectTextLen(doc) ==
    LET ms == doc.members
        SumTo[k \in 0..Len(ms)] ==
            IF k = 0 THEN 0
            ELSE SumTo[k - 1] + Len(ms[k].name) + 3 + ValueTextLen(ms[k].value)
    IN  2 + SumTo[Len(ms)] + (IF Len(ms) > 0 THEN Len(ms) - 1 ELSE 0)

\* SyncMessage::to_bytes (serde_json::to_vec does not fail on these types)
to_bytes(self) == Ok(<<JsonRun(to_json(self), ObjectTextLen(to_json(self)))>>)

\* the members of an object that carry a name
Members(doc, name) == {i \in 1..Len(doc.members) : doc.members[i].name = name}
\* the object has the member once, with a value of one of the kinds
HasOne(doc, name, kinds) ==
    /\ Cardinality(Members(doc, name)) = 1
    /\ \A i \in Members(doc, name) : doc.members[i].value.j \in kinds
Get(doc, name) == doc.members[CHOOSE i \in Members(doc, name) : TRUE].value

\* an f64 member: a number with a fraction, or an integer read as n.0
de_f64(v) == IF v.j = "float" THEN F64(v.t) ELSE F64(ToString(v.n) \o ".0")

\* #[derive(Deserialize)] #[serde(tag = "type")]: the tag picks the variant, every
\* field of the variant is required once with a value of its type, other members
\* are ignored.  Integers of the model are below 2^31, hence inside u64 and u32
\* whenever they are not negative, and inside i32.
from_json(doc) ==
    IF ~HasOne(doc, "type", {"string"}) THEN Err("SerializationError")
    ELSE LET tag == Get(doc, "type").s
             str == {"string"}
             num == {"float", "int"}
             int == {"int"}
         IN  CASE tag = TAG_config_sync ->
                    IF /\ HasOne(doc, "config_hash", str)
                       /\ HasOne(doc, "config_data", str)
                    THEN Ok(ConfigSync(Get(doc, "config_hash").s, Get(doc, "config_data").s))
                    ELSE Err("SerializationError")
               [] tag = TAG_remote_exec ->
                    IF /\ HasOne(doc, "command", str)
                       /\ HasOne(doc, "args", {"array"})
                       /\ \A i \in 1..Len(Get(doc, "args").a) : Get(doc, "args").a[i].j = "string"
                    THEN Ok(RemoteExec(Get(doc, "command").s,
                                       [i \in 1..Len(Get(doc, "args").a) |-> Get(doc, "args").a[i].s]))
                    ELSE Err("SerializationError")
               [] tag = TAG_status_push ->
                    IF /\ HasOne(doc, "cpu_usage", num)
                       /\ HasOne(doc, "memory_usage", num)
                       /\ HasOne(doc, "disk_usage", num)
                       /\ HasOne(doc, "uptime_secs", int)
                       /\ Get(doc, "uptime_secs").n >= 0
                       /\ HasOne(doc, "active_sessions", int)
                       /\ Get(doc, "active_sessions").n >= 0
                       /\ HasOne(doc, "ai_status", str)
                    THEN Ok(StatusPush(de_f64(Get(doc, "cpu_usage")),
                                       de_f64(Get(doc, "memory_usage")),
                                       de_f64(Get(doc, "disk_usage")),
                                       Get(doc, "uptime_secs").n,
                                       Get(doc, "active_sessions").n,
                                       Get(doc, "ai_status").s))
                    ELSE Err("SerializationError")
               [] tag = TAG_remote_exec_result ->
                    IF /\ HasOne(doc, "command", str)
                       /\ HasOne(doc, "exit_code", int)
                       /\ HasOne(doc, "stdout", str)
                       /\ HasOne(doc, "stderr", str)
                    THEN Ok(RemoteExecResult(Get(doc, "command").s, Get(doc, "exit_code").n,
                                             Get(doc, "stdout").s, Get(doc, "stderr").s))
                    ELSE Err("SerializationError")
               [] OTHER -> Err("SerializationError")

\* SyncMessage::from_bytes.  A buffer is the text of a JSON document when it is
\* one whole json run; a run cut short, a run with other bytes around it and
\* the plain-byte buffers of the model are not JSON text.
from_bytes(data) ==
    IF /\ Len(data) = 1
       /\ data[1].kind = "json"
       /\ data[1].off = 0
       /\ data[1].n = data[1].full
    THEN from_json(data[1].doc)
    ELSE Err("SerializationError")

\* sync_type_code with the codes of the two exec variants exchanged
sync_type_code_swapped(self) ==
    CASE self.variant = "ConfigSync" -> SYNC_CONFIG
      [] self.variant = "RemoteExec" -> SYNC_REMOTE_EXEC_RESULT
      [] self.variant = "StatusPush" -> SYNC_STATUS_PUSH
      [] self.variant = "RemoteExecResult" -> SYNC_REMOTE_EXEC

\* SyncMessage::sync_type_code
sync_type_code(self) ==
    CASE self.variant = "ConfigSync" -> SYNC_CONFIG
      [] self.variant = "RemoteExec" -> SYNC_REMOTE_EXEC
      [] self.variant = "StatusPush" -> SYNC_STATUS_PUSH
      [] self.variant = "RemoteExecResult" -> SYNC_REMOTE_EXEC_RESULT

\* SyncMessage::encode_ecnp
sync_encode_ecnp(self) ==
    LET json_bytes == to_bytes(self)
    IN  IF ~json_bytes.ok THEN json_bytes
        ELSE LET payload == Concat(Bytes(<<sync_type_code(self)>>), json_bytes.val)
             IN  encode("Data", payload)

\* decode_ecnp without the test of the frame's message type
sync_decode_ecnp_any_type(frame) ==
    LET msg == decode(frame)
    IN  IF ~msg.ok THEN msg
        ELSE IF BLen(msg.val.payload) = 0 THEN Err("InvalidParameter")
        ELSE LET sync_type == At(msg.val.payload, 0)
                 sync_msg == from_bytes(Slice(msg.val.payload, 1, BLen(msg.val.payload)))
             IN  IF ~sync_msg.ok THEN sync_msg
                 ELSE Ok(<<sync_type, sync_msg.val>>)

\* SyncMessage::decode_ecnp
sync_decode_ecnp(frame) ==
    LET msg == decode(frame)
    IN  IF ~msg.ok THEN msg
        ELSE IF msg.val.msg_type # MessageTypeCode("Data") THEN Err("InvalidParameter")
        ELSE IF BLen(msg.val.payload) = 0 THEN Err("InvalidParameter")
        ELSE LET sync_type == At(msg.val.payload, 0)
                 sync_msg == from_bytes(Slice(msg.val.payload, 1, BLen(msg.val.payload)))
             IN  IF ~sync_msg.ok THEN sync_msg
                 ELSE Ok(<<sync_type, sync_msg.val>>)

(***************************************************************************)
(* sync.rs: SyncClient.  The client is a record of its fields.  connect is *)
(* an async fn: it runs in segments that end at its await points, and each  *)
(* segment is an operator from the client and the locals of the call       *)
(* (pc, the frame to send, the header read, the result once it returned)   *)
(* to the client and the locals after the segment.                         *)
(***************************************************************************)
SyncConnectionState == {"Disconnected", "Connecting", "Handshaking", "Connected", "Syncing", "Error"}

None == [some |-> FALSE]
Some(v) == [some |-> TRUE, val |-> v]

\* SyncClientConfig::default
SyncClientConfig_default ==
    [desktop_address |-> "127.0.0.1:8443",
     heartbeat_interval_secs |-> 30,
     status_interval_secs |-> 30,
     connect_timeout_secs |-> 10,
     auto_reconnect |-> TRUE,
     max_reconnect_attempts |-> 0]

\* SyncClient::new
SyncClient_new(config) ==
    [config |-> config,
     state |-> "Disconnected",
     connected |-> FALSE,
     messages_sent |-> 0,
     messages_received |-> 0,
     reconnect_count |-> 0,
     last_config_hash |-> None,
     last_status |-> None,
     shutdown |-> FALSE]

\* SyncClient::state, is_connected, is_shutdown, desktop_address
SyncClient_state(self) == self.state
is_connected(self) == self.connected
is_shutdown(self) == self.shutdown
desktop_address(self) == self.config.desktop_address

\* SyncClient::set_state; the state Mutex is never poisoned, no holder panics
set_state(self, new_state) == [self EXCEPT !.state = new_state]

\* str::parse::<SocketAddr> on the addresses of the model: ip:port texts parse,
\* a text without a port does not
parse_socket_addr(s) ==
    IF s \in {"127.0.0.1:8443", "192.168.1.100:8443"} THEN Ok(s) ELSE Err("AddrParseError")

\* serde_json::json!({...}) of the handshake, as bytes.  The order of the members
\* in the text follows the map type serde_json is built with; the length does not.
handshake_payload ==
    JObject(<<Member("protocol", JString(Bytes(<<101, 99, 110, 112>>))),
              Member("version", JString(Bytes(<<49, 46, 49>>))),
              Member("client_type", JString(Bytes(<<109, 111, 98, 105, 108, 101>>))),
              Member("capabilities",
                     JArray(<<JString(TAG_config_sync), JString(TAG_remote_exec),
                              JString(TAG_status_push)>>))>>)
handshake_data == <<JsonRun(handshake_payload, ObjectTextLen(handshake_payload))>>

\* the locals of a connect call that has not started
NoHeader == <<>>
CallIdle == [pc |-> "idle", frame |-> <<>>, header_buf |-> NoHeader, res |-> None]
\* the call returns res (res is None until it does)
Return(self, call, res) == [client |-> self, call |-> [call EXCEPT !.pc = "done", !.res = Some(res)]]
\* the call suspends at the await point pc
Await(self, call, pc) == [client |-> self, call |-> [call EXCEPT !.pc = pc]]

\* connect, from entry to TcpStream::connect(addr).await
connect_start(self) ==
    LET c == set_state(self, "Connecting")
        addr == parse_socket_addr(c.config.desktop_address)
    IN  IF ~addr.ok THEN Return(c, CallIdle, Err("InvalidParameter"))
        ELSE Await(c, CallIdle, "tcp")

\* from the end of the TCP establish to write_all(&frame).await
connect_tcp(self, call, outcome) ==
    CASE outcome = "timeout" -> Return(self, call, Err("TimeoutError"))
      [] outcome = "error" -> Return(self, call, Err("ConnectionError"))
      [] outcome = "ok" ->
           LET c == set_state(self, "Handshaking")
               frame == encode("Handshake", handshake_data)
           IN  IF ~frame.ok THEN Return(c, call, frame)
               ELSE Await(c, [call EXCEPT !.frame = frame.val], "write")

\* from the end of write_all to flush().await
connect_write(self, call, outcome) ==
    IF outcome = "ok" THEN Await(self, call, "flush")
    ELSE Return(self, call, Err("ConnectionError"))

\* from the end of flush to read_exact(&mut header_buf).await
connect_flush(self, call, outcome) ==
    IF outcome = "ok" THEN Await(self, call, "read_header")
    ELSE Return(self, call, Err("ConnectionError"))

\* connect's last segment with the test of the reply's type byte left out
connect_validate_any(self, call) ==
    Return(set_state([self EXCEPT !.connected = TRUE], "Connected"), call, Ok("unit"))

\* connect's last segment with connected stored before the test of the reply
connect_validate_early(self, call) ==
    IF call.header_buf[2] # MessageTypeCode("Ack")
    THEN Return(set_state([self EXCEPT !.connected = TRUE], "Error"), call, Err("ConnectionError"))
    ELSE Return(set_state([self EXCEPT !.connected = TRUE], "Connected"), call, Ok("unit"))

\* connect's last segment: the test of the reply's type byte, then Connected
connect_validate(self, call) ==
    IF call.header_buf[2] # MessageTypeCode("Ack")
    THEN Return(set_state(self, "Error"), call, Err("ConnectionError"))
    ELSE Return(set_state([self EXCEPT !.connected = TRUE], "Connected"), call, Ok("unit"))

\* from the end of the header read to the payload read, or to the return
connect_read_header(self, call, outcome, header) ==
    CASE outcome = "timeout" -> Return(self, call, Err("TimeoutError"))
      [] outcome = "error" -> Return(self, call, Err("ConnectionError"))
      [] outcome = "ok" ->
           LET k == [call EXCEPT !.header_buf = header]
               payload_len == from_be_bytes(SubSeq(header, 3, 6))
           IN  IF payload_len > 0 THEN Await(self, k, "read_payload")
               ELSE connect_validate(self, k)

\* from the end of the payload read to the return
connect_read_payload(self, call, outcome) ==
    CASE outcome = "timeout" -> Return(self, call, Err("TimeoutError"))
      [] outcome = "error" -> Return(self, call, Err("ConnectionError"))
      [] outcome = "ok" -> connect_validate(self, call)

\* create_remote_exec that counts the message before it encodes it
create_remote_exec_count_first(self, command, args) ==
    LET frame == sync_encode_ecnp(RemoteExec(command, args))
    IN  [client |-> [self EXCEPT !.messages_sent = @ + 1], res |-> frame]

\* SyncClient::create_remote_exec
create_remote_exec(self, command, args) ==
    LET frame == sync_encode_ecnp(RemoteExec(command, args))
    IN  IF ~frame.ok THEN [client |-> self, res |-> frame]
        ELSE [client |-> [self EXCEPT !.messages_sent = @ + 1], res |-> frame]

\* process_incoming that counts the frame before it decodes it
process_incoming_count_first(self, frame) ==
    LET decoded == sync_decode_ecnp(frame)
        c == [self EXCEPT !.messages_received = @ + 1]
    IN  IF ~decoded.ok THEN [client |-> c, res |-> decoded]
        ELSE LET msg == decoded.val[2]
             IN  [client |->
                      CASE msg.variant = "ConfigSync" ->
                             [c EXCEPT !.last_config_hash = Some(msg.config_hash)]
                        [] msg.variant = "StatusPush" ->
                             [c EXCEPT !.last_status = Some(msg)]
                        [] OTHER -> c,
                  res |-> Ok(msg)]

\* SyncClient::process_incoming; the Mutexes of last_config_hash and last_status
\* are never poisoned
process_incoming(self, frame) ==
    LET decoded == sync_decode_ecnp(frame)
    IN  IF ~decoded.ok THEN [client |-> self, res |-> decoded]
        ELSE LET msg == decoded.val[2]
                 c == [self EXCEPT !.messages_received = @ + 1]
             IN  [client |->
                      CASE msg.variant = "ConfigSync" ->
                             [c EXCEPT !.last_config_hash = Some(msg.config_hash)]
                        [] msg.variant = "StatusPush" ->
                             [c EXCEPT !.last_status = Some(msg)]
                        [] OTHER -> c,
                  res |-> Ok(msg)]

\* shutdown that forgets to clear the connected flag
SyncClient_shutdown_keep(self) ==
    set_state([self EXCEPT !.shutdown = TRUE], "Disconnected")

\* SyncClient::shutdown
SyncClient_shutdown(self) ==
    set_state([self EXCEPT !.shutdown = TRUE, !.connected = FALSE], "Disconnected")

(***************************************************************************)
(* sync.rs: TransportPreference, ConnectionStrategy,                       *)
(* determine_connection_strategy.  An address is a string that is only     *)
(* copied, and is atomic.                                                  *)
(***************************************************************************)
TransportPreference == {"BleFirst", "TcpLan", "Auto"}

\* Option<&str>::map(|s| s.to_string())
map_to_string(opt) == IF opt.some THEN Some(opt.val) ELSE None

\* determine_connection_strategy whose Auto branch asks for TCP without a LAN address
determine_connection_strategy_tcp(preference, ble_device_available, lan_address) ==
    CASE preference = "BleFirst" ->
           [transport |-> "BleFirst", desktop_address |-> map_to_string(lan_address),
            ble_device_id |-> None, should_use_tcp |-> ~ble_device_available]
      [] preference = "TcpLan" ->
           [transport |-> "TcpLan", desktop_address |-> map_to_string(lan_address),
            ble_device_id |-> None, should_use_tcp |-> TRUE]
      [] preference = "Auto" ->
           IF ble_device_available /\ lan_address.some
           THEN [transport |-> "Auto", desktop_address |-> map_to_string(lan_address),
                 ble_device_id |-> None, should_use_tcp |-> TRUE]
           ELSE IF lan_address.some
           THEN [transport |-> "TcpLan", desktop_address |-> map_to_string(lan_address),
                 ble_device_id |-> None, should_use_tcp |-> TRUE]
           ELSE [transport |-> "BleFirst", desktop_address |-> None,
                 ble_device_id |-> None, should_use_tcp |-> ~ble_device_available]

\* determine_connection_strategy
determine_connection_strategy(preference, ble_device_available, lan_address) ==
    CASE preference = "BleFirst" ->
           [transport |-> "BleFirst", desktop_address |-> map_to_string(lan_address),
            ble_device_id |-> None, should_use_tcp |-> ~ble_device_available]
      [] preference = "TcpLan" ->
           [transport |-> "TcpLan", desktop_address |-> map_to_string(lan_address),
            ble_device_id |-> None, should_use_tcp |-> TRUE]
      [] preference = "Auto" ->
           IF ble_device_available /\ lan_address.some
           THEN [transport |-> "Auto", desktop_address |-> map_to_string(lan_address),
                 ble_device_id |-> None, should_use_tcp |-> TRUE]
           ELSE IF lan_address.some
           THEN [transport |-> "TcpLan", desktop_address |-> map_to_string(lan_address),
                 ble_device_id |-> None, should_use_tcp |-> TRUE]
           ELSE [transport |-> "BleFirst", desktop_address |-> None,
                 ble_device_id |-> None, should_use_tcp |-> FALSE]

(***************************************************************************)
(* identity.rs: DeviceIdentity, IdentityManager.  Keys are symbolic: OsRng *)
(* and Uuid::new_v4 draw values that were never drawn before, and the k-th *)
(* draw is named by k.  An X25519 secret is named like the secrets of the  *)
(* session manager, so that PublicKey and diffie_hellman act on it.        *)
(***************************************************************************)
\* SigningKey::generate(&mut OsRng), k-th draw
SigningKey_generate(k) == [ed25519_secret |-> k]

\* SigningKey::verifying_key
verifying_key(signing_key) == [verifies |-> signing_key.ed25519_secret]

\* StaticSecret::random_from_rng(OsRng), k-th draw
StaticSecret_random(k) == "id-" \o ToString(k)

\* hex::encode of a byte array named by what it holds
hex_encode(bytes) == [hex |-> bytes]

\* the first 8 bytes of Sha256 of a byte array
sha256_first8(bytes) == [sha256 |-> bytes, first |-> 8]

\* chrono::Utc::now().to_rfc3339()
to_rfc3339(t) == [rfc3339 |-> t]

\* Uuid::new_v4().to_string(), k-th draw: 36 characters, 8-4-4-4-12 digits
\* with the version digit 4; the digit of k fills the random places
Uuid_to_string(k) ==
    LET d == 48 + (k % 10)
    IN  Concat(Fill(d, 8),
        Concat(Bytes(<<45>>),
        Concat(Fill(d, 4),
        Concat(Bytes(<<45, 52>>),
        Concat(Fill(d, 3),
        Concat(Bytes(<<45, 56>>),
        Concat(Fill(d, 3),
        Concat(Bytes(<<45>>), Fill(d, 12)))))))))

\* IdentityManager::new
IdentityManager_new == [signing_key |-> None, x25519_secret |-> None, identity |-> None]

\* the draws made so far: each generate_identity makes one draw of each kind
Draws(self) == IF self.signing_key.some THEN self.signing_key.val.ed25519_secret ELSE 0

\* generate_identity that leaves the key-agreement secret as it was
generate_identity_keep_secret(self, t) ==
    LET k == Draws(self) + 1
        signing_key == SigningKey_generate(k)
        public_key_bytes == verifying_key(signing_key)
        identity == [device_id |-> Uuid_to_string(k),
                     public_key_hex |-> hex_encode(public_key_bytes),
                     fingerprint |-> hex_encode(sha256_first8(public_key_bytes)),
                     created_at |-> to_rfc3339(t)]
    IN  [mgr |-> [signing_key |-> Some(signing_key),
                  x25519_secret |-> self.x25519_secret,
                  identity |-> Some(identity)],
         res |-> Ok(identity)]

\* IdentityManager::generate_identity, t being Utc::now(); returns the manager and the result
generate_identity(self, t) ==
    LET k == Draws(self) + 1
        signing_key == SigningKey_generate(k)
        public_key_bytes == verifying_key(signing_key)
        x25519_secret == StaticSecret_random(k)
        identity == [device_id |-> Uuid_to_string(k),
                     public_key_hex |-> hex_encode(public_key_bytes),
                     fingerprint |-> hex_encode(sha256_first8(public_key_bytes)),
                     created_at |-> to_rfc3339(t)]
    IN  [mgr |-> [signing_key |-> Some(signing_key),
                  x25519_secret |-> Some(x25519_secret),
                  identity |-> Some(identity)],
         res |-> Ok(identity)]

\* get_identity answering a placeholder identity when none was generated
get_identity_placeholder(self) ==
    IF self.identity.some THEN Ok(self.identity.val)
    ELSE Ok([device_id |-> Bytes(<<>>),
             public_key_hex |-> hex_encode(<<>>),
             fingerprint |-> hex_encode(<<>>),
             created_at |-> to_rfc3339(0)])

\* IdentityManager::get_identity
get_identity(self) ==
    IF self.identity.some THEN Ok(self.identity.val) ELSE Err("InternalError")

\* IdentityManager::get_secret_key
get_secret_key(self) ==
    IF self.x25519_secret.some THEN Ok(self.x25519_secret.val) ELSE Err("InternalError")

\* IdentityManager::get_public_key
get_public_key(self) ==
    IF self.x25519_secret.some THEN Ok(PublicKey(self.x25519_secret.val))
    ELSE Err("InternalError")

(***************************************************************************)
(* protocol.rs: the ECM and heartbeat constructors.  The String returned   *)
(* is the JSON text of the payload, a json run like the text of a sync     *)
(* message.                                                                *)
(***************************************************************************)
\* std::env::consts::OS; the model is of a linux build
OS == Bytes(<<108, 105, 110, 117, 120>>)

\* env!("CARGO_PKG_VERSION"): set by the crate's manifest; 1.0.0 stands for it
CARGO_PKG_VERSION == Bytes(<<49, 46, 48, 46, 48>>)

\* serde_json::to_string of a payload
to_string(doc) == Ok(<<JsonRun(doc, ObjectTextLen(doc))>>)

\* protocol::create_ecm
protocol_create_ecm(device_id, device_type, capabilities) ==
    to_string(JObject(<<Member("device_id", JString(device_id)),
                        Member("device_type", JString(device_type)),
                        Member("capabilities",
                               JArray([i \in 1..Len(capabilities) |-> JString(capabilities[i])])),
                        Member("os", JString(OS)),
                        Member("version", JString(CARGO_PKG_VERSION))>>))

\* protocol::create_heartbeat
protocol_create_heartbeat(device_id, uptime_secs, cpu_usage, memory_usage, n_active_sessions) ==
    to_string(JObject(<<Member("device_id", JString(device_id)),
                        Member("uptime_secs", JInt(uptime_secs)),
                        Member("cpu_usage", ser_f64(cpu_usage)),
                        Member("memory_usage", ser_f64(memory_usage)),
                        Member("active_sessions", JInt(n_active_sessions))>>))

(***************************************************************************)
(* peer.rs: PeerInfo, PeerEntry, PeerManager.  The HashMap is a function   *)
(* from peer id to entry; the strings of a peer are only stored and        *)
(* compared, and are atomic.  A Vec collected from the values of the map   *)
(* has no set order, and is the set of its elements.                       *)
(***************************************************************************)
\* PeerManager::new
PeerManager_new == <<>>

\* a method of &mut PeerManager returns the manager's map and its result
PRet(map, res) == [peers |-> map, res |-> res]

\* add_peer that keeps the connected flag of the entry it replaces
add_peer_keep(self, peer_id, device_name, device_type, address, capabilities, t) ==
    LET info == [peer_id |-> peer_id,
                 device_name |-> device_name,
                 device_type |-> device_type,
                 address |-> address,
                 capabilities |-> capabilities,
                 last_seen |-> to_rfc3339(t),
                 is_connected |-> IF peer_id \in DOMAIN self
                                  THEN self[peer_id].info.is_connected ELSE FALSE]
        entry == [info |-> info, discovered_at |-> t]
    IN  PRet([id \in DOMAIN self \cup {peer_id} |-> IF id = peer_id THEN entry ELSE self[id]],
             info)

\* PeerManager::add_peer, t being Utc::now()
add_peer(self, peer_id, device_name, device_type, address, capabilities, t) ==
    LET info == [peer_id |-> peer_id,
                 device_name |-> device_name,
                 device_type |-> device_type,
                 address |-> address,
                 capabilities |-> capabilities,
                 last_seen |-> to_rfc3339(t),
                 is_connected |-> FALSE]
        entry == [info |-> info, discovered_at |-> t]
    IN  PRet([id \in DOMAIN self \cup {peer_id} |-> IF id = peer_id THEN entry ELSE self[id]],
             info)

\* PeerManager::set_connected
set_connected(self, peer_id, connected, t) ==
    IF peer_id \notin DOMAIN self THEN PRet(self, Err("InvalidParameter"))
    ELSE PRet([self EXCEPT ![peer_id].info.is_connected = connected,
                           ![peer_id].info.last_seen = to_rfc3339(t)],
              Ok("unit"))

\* PeerManager::remove_peer
remove_peer(self, peer_id) ==
    IF peer_id \in DOMAIN self
    THEN PRet([id \in DOMAIN self \ {peer_id} |-> self[id]], Ok("unit"))
    ELSE PRet(self, Err("InvalidParameter"))

\* PeerManager::get_peer
get_peer(self, peer_id) ==
    IF peer_id \in DOMAIN self THEN Ok(self[peer_id].info) ELSE Err("InvalidParameter")

\* PeerManager::list_peers
list_peers(self) == {self[id].info : id \in DOMAIN self}

\* PeerManager::connected_peers
connected_peers(self) == {self[id].info : id \in {i \in DOMAIN self : self[i].info.is_connected}}

\* cleanup_stale that also drops the entries discovered exactly at the cutoff
cleanup_stale_strict(self, timeout_secs, t) ==
    LET cutoff == t - timeout_secs
        initial == Cardinality(DOMAIN self)
        kept == {id \in DOMAIN self : self[id].discovered_at > cutoff}
    IN  PRet([id \in kept |-> self[id]], initial - Cardinality(kept))

\* PeerManager::cleanup_stale
cleanup_stale(self, timeout_secs, t) ==
    LET cutoff == t - timeout_secs
        initial == Cardinality(DOMAIN self)
        kept == {id \in DOMAIN self : self[id].discovered_at >= cutoff}
    IN  PRet([id \in kept |-> self[id]], initial - Cardinality(kept))

\* PeerManager::count
count(self) == Cardinality(DOMAIN self)

(***************************************************************************)
(* Inputs of the session manager                                           *)
(***************************************************************************)
SessionIds == 1..MaxSessions
PeerIds == {"peer-1"}
LocalSecrets == {"a"}
RemotePublics == {PublicKey("b"), PublicKey("c")}

\* b"EdgeClaw test message"
TestMessage ==
    Bytes(<<69, 100, 103, 101, 67, 108, 97, 119, 32, 116, 101, 115, 116, 32,
            109, 101, 115, 115, 97, 103, 101>>)

Plaintexts == {Bytes(<<>>), TestMessage}

\* the clock reads 0 and the seconds around the expiry of a session created at 0
Instants == {0} \cup {SESSION_DURATION_SECS - 1 + k : k \in 0..MaxLate}

\* frames handed to decrypt: every frame an encrypt returned, and frames too short to hold a nonce
EmittedFrames == UNION {{emitted[id][i].frame : i \in 1..Len(emitted[id])} : id \in DOMAIN emitted}
ShortFrames == {Bytes(<<>>), Fill(0, 5), Fill(0, 11)}

(***************************************************************************)
(* Inputs of the codec                                                     *)
(***************************************************************************)
RECURSIVE SeqsUpTo(_, _)
SeqsUpTo(S, n) ==
    IF n = 0 THEN {<<>>}
    ELSE LET shorter == SeqsUpTo(S, n - 1)
         IN  shorter \cup {Append(s, x) : s \in {t \in shorter : Len(t) = n - 1}, x \in S}

PayloadBytes == {0, 170}
\* lengths of the zero-filled remainder of a payload: none, or up to the 1 MiB limit
FillLens == {0, MAX_PAYLOAD_SIZE - 1}

\* b"heartbeat data"
HeartbeatData == Bytes(<<104, 101, 97, 114, 116, 98, 101, 97, 116, 32, 100, 97, 116, 97>>)

Payloads ==
    {Concat(Bytes(h), Fill(0, n)) : h \in SeqsUpTo(PayloadBytes, MaxHead), n \in FillLens}
    \cup {HeartbeatData}

VersionBytes == {0, 1, 255}
TypeBytes == {0, 1, 2, 3, 4, 5, 6, 7, 255}
\* declared lengths 0, 1, 10, 2^20, 2^20 + 1, 2^31 - 1
LengthFields == {<<0, 0, 0, 0>>, <<0, 0, 0, 1>>, <<0, 0, 0, 10>>,
                 <<0, 16, 0, 0>>, <<0, 16, 0, 1>>, <<127, 255, 255, 255>>}

Headers == {<<v, t>> \o l : v \in VersionBytes, t \in TypeBytes, l \in LengthFields}

\* bytes that follow a frame in a buffer: none, one byte, the start of another
\* frame, a long run of zeros
Trailers == {Bytes(<<>>), Bytes(<<170>>), Bytes(<<1, 2, 0, 0, 0, 1, 0>>),
             Fill(0, MAX_PAYLOAD_SIZE)}

\* buffers handed to decode: a header or a truncated header, then a body
Buffers ==
    {Concat(Bytes(h), p) : h \in Headers, p \in Payloads}
    \cup {Bytes(SubSeq(h, 1, k)) : h \in Headers, k \in 0..(HEADER_SIZE - 1)}

(***************************************************************************)
(* Inputs of the sync message layer                                        *)
(***************************************************************************)
\* "h", "abc123", "uptime", "ls", "-a", "ok\n", "dummy"
S_h == Bytes(<<104>>)
S_abc123 == Bytes(<<97, 98, 99, 49, 50, 51>>)
S_uptime == Bytes(<<117, 112, 116, 105, 109, 101>>)
S_ls == Bytes(<<108, 115>>)
S_a == Bytes(<<45, 97>>)
S_ok == Bytes(<<111, 107, 10>>)
S_dummy == Bytes(<<100, 117, 109, 109, 121>>)

\* length of the JSON text of a ConfigSync around its config_data
ConfigOverhead(config_hash) == ObjectTextLen(to_json(ConfigSync(config_hash, Bytes(<<>>))))

\* config_data of 'd's: short, and sized so that the sub-type byte and the JSON
\* text together are one byte under the ECNP payload limit, at it, and one over
ConfigData(config_hash) ==
    {Fill(100, n) : n \in {0, 1} \cup
        {MAX_PAYLOAD_SIZE - 1 - ConfigOverhead(config_hash) + k : k \in {-1, 0, 1}}}

Floats == {F64("0.0"), F64("45.2"), F64_NAN, F64_INFINITY}

SyncMessages ==
    {ConfigSync(h, d) : h \in {S_h}, d \in ConfigData(S_h)}
    \cup {ConfigSync(h, d) : h \in {S_abc123}, d \in ConfigData(S_abc123)}
    \cup {RemoteExec(c, a) : c \in {S_uptime, S_ls}, a \in {<<>>, <<S_a>>, <<S_a, S_h>>}}
    \cup {StatusPush(c, m, F64("0.0"), u, 0, Bytes(<<>>)) :
             c \in Floats, m \in Floats, u \in {0, SESSION_DURATION_SECS}}
    \cup {RemoteExecResult(S_ls, e, o, Bytes(<<>>)) : e \in {0, -1}, o \in {Bytes(<<>>), S_ok}}

\* first payload bytes around the assigned sub-type codes
SubTypeBytes == {15, SYNC_CONFIG, SYNC_REMOTE_EXEC, SYNC_STATUS_PUSH, SYNC_REMOTE_EXEC_RESULT,
                 20, 31, 32}

\* frames handed to decode_ecnp that encode_ecnp did not build: any sub-type
\* byte before the JSON text of a message, in a Data or a Heartbeat frame;
\* frames of every type with an empty payload and with b"dummy"; buffers the
\* ECNP decoder rejects (cut short, version 2, type 7, length over the limit,
\* payload shorter than declared)
SyncFrames ==
    {encode(mt, Concat(Bytes(<<c>>), to_bytes(m).val)).val :
        mt \in {"Data", "Heartbeat"}, c \in SubTypeBytes,
        m \in {RemoteExec(S_uptime, <<>>), ConfigSync(S_h, Fill(100, 1))}}
    \cup {encode(mt, p).val : mt \in MessageType, p \in {Bytes(<<>>), S_dummy}}
    \cup {Bytes(<<ECNP_VERSION, 2, 0>>),
          Bytes(<<2, 2, 0, 0, 0, 1, SYNC_CONFIG>>),
          Bytes(<<ECNP_VERSION, 7, 0, 0, 0, 1, SYNC_CONFIG>>),
          Concat(Bytes(<<ECNP_VERSION, 2, 0, 16, 0, 1>>), Fill(0, MAX_PAYLOAD_SIZE + 1)),
          Bytes(<<ECNP_VERSION, 2, 0, 0, 0, 5, SYNC_CONFIG>>)}

(***************************************************************************)
(* Inputs of the sync client                                               *)
(***************************************************************************)
\* "hostname", "-f", "sha256:abc", "ready"
S_hostname == Bytes(<<104, 111, 115, 116, 110, 97, 109, 101>>)
S_f == Bytes(<<45, 102>>)
S_sha256_abc == Bytes(<<115, 104, 97, 50, 53, 54, 58, 97, 98, 99>>)
S_ready == Bytes(<<114, 101, 97, 100, 121>>)

\* the default configuration, and one whose address does not parse
ClientConfigs ==
    {SyncClientConfig_default,
     [SyncClientConfig_default EXCEPT !.desktop_address = "not-a-valid-addr",
                                      !.connect_timeout_secs = 1]}

\* the six bytes a peer may answer the handshake with: an Ack or another type,
\* with or without a payload, with the right or a wrong version byte
ReplyHeaders ==
    {<<v, t, 0, 0, 0, l>> : v \in {ECNP_VERSION}, t \in {5, 2}, l \in {0, 2}}
    \cup {<<0, 5, 0, 0, 0, 0>>, <<ECNP_VERSION, 0, 0, 0, 0, 2>>}

\* commands handed to create_remote_exec: two short ones, and one as long as
\* the largest ECNP payload
RemoteExecCommands == {S_ls, S_hostname, Fill(97, MAX_PAYLOAD_SIZE)}

\* frames handed to process_incoming: one message of each kind the desktop
\* sends, and a frame that is not a sync message
ClientFrames ==
    {sync_encode_ecnp(m).val :
        m \in {ConfigSync(S_sha256_abc, S_h),
               StatusPush(F64("30.0"), F64("55.0"), F64("40.0"), SESSION_DURATION_SECS, 1, S_ready),
               RemoteExecResult(S_ls, 0, S_ok, Bytes(<<>>)),
               RemoteExec(S_ls, <<>>)}}
    \cup {encode("Heartbeat", S_dummy).val}

(***************************************************************************)
(* Inputs of the peer registry                                             *)
(***************************************************************************)
RegistryIds == {"peer-1", "peer-2"}

\* name, type, address and capabilities of the peers that are added
PeerDescriptions ==
    {[device_name |-> "OldName", device_type |-> "pc", address |-> "1.1.1.1",
      capabilities |-> <<>>],
     [device_name |-> "NewName", device_type |-> "pc", address |-> "2.2.2.2",
      capabilities |-> <<"gpu">>]}

\* timeouts handed to cleanup_stale, in seconds
StaleTimeouts == {-1, 0, SESSION_DURATION_SECS}

(***************************************************************************)
(* Inputs of determine_connection_strategy                                 *)
(***************************************************************************)
LanAddresses == {None, Some("192.168.1.10:8443"), Some("10.0.0.5:8443"), Some("")}

(***************************************************************************)
(* Inputs of the two peers of a channel                                    *)
(***************************************************************************)
\* the X25519 secret of each peer
SideSecret(side) == IF side = "A" THEN "a" ELSE "b"
OtherSide(side) == IF side = "A" THEN "B" ELSE "A"

\* the public key a peer creates a session with: the other peer's, and for the
\* second session of A a third party's
SideRemote(side, sid) ==
    IF side = "A" /\ sid = 2 THEN PublicKey("c") ELSE PublicKey(SideSecret(OtherSide(side)))

\* the session identifiers a peer's Uuid::new_v4 can draw: A creates up to two
\* sessions, B one
SideSessionIds(side) == IF side = "A" THEN {1, 2} ELSE {1}

\* the clock of the two peers reads 0, then one second later: no session expires
ChannelInstants == {0, 1}

\* what each peer encrypts
SidePlaintext(side) == IF side = "A" THEN TestMessage ELSE HeartbeatData

\* the AEAD part of a frame an encrypt returned
SealedPart(frame) == frame[Len(frame)]

\* a frame whose ciphertext was altered in transit: the tag no longer matches
TamperedFrame(frame) ==
    Concat(Slice(frame, 0, 12),
           <<AeadRun([SealedPart(frame).doc EXCEPT !.tag_ok = FALSE], SealedPart(frame).full)>>)

\* a frame whose leading nonce was replaced by another one
RenoncedFrame(frame) ==
    Concat(Bytes(nonce_bytes_of(7)), Slice(frame, 12, BLen(frame)))

\* frames handed to the decrypt of a peer: the frames on the wire, as sent or altered
WireFrames == {w.frame : w \in wire}
ChannelFrames ==
    WireFrames \cup {TamperedFrame(f) : f \in WireFrames} \cup {RenoncedFrame(f) : f \in WireFrames}
    \cup {Slice(f, 0, 12) : f \in WireFrames}

(***************************************************************************)
(* State                                                                   *)
(***************************************************************************)
NoCall == [op |-> "none"]

\* the two peers of a channel
Sides == {"A", "B"}

\* the component Mutexes of EdgeClawEngine
Locks == {"identity_manager", "session_manager", "peer_manager", "sync_client"}

\* a thread that has not entered an engine method yet
LockIdle == [op |-> "none", pc |-> 0, failed |-> FALSE]

\* threads calling into one shared engine
Threads == {"t1", "t2"}
NoThread == "none"
Idle == [pc |-> "idle"]

Init ==
    /\ ecnp_last = NoCall
    /\ policy_engine = PolicyEngine_new
    /\ policy_last = NoCall
    /\ sessions = SessionManager_new
    /\ now = 0
    /\ emitted = <<>>
    /\ sess_last = NoCall
    /\ session_lock = NoThread
    /\ threads = [t \in Threads |-> Idle]
    /\ sync_last = NoCall
    /\ client = SyncClient_new(SyncClientConfig_default)
    /\ conn = CallIdle
    /\ client_last = NoCall
    /\ sync_client = None
    /\ econn = [call |-> CallIdle, temp |-> None]
    /\ engine_last = NoCall
    /\ identity_manager = IdentityManager_new
    /\ identity_lock = NoThread
    /\ callers = [t \in Threads |-> Idle]
    /\ id_last = NoCall
    /\ last_generated = None
    /\ peer_manager = PeerManager_new
    /\ peer_last = NoCall
    /\ strategy_last = NoCall
    /\ strategy_prev = NoCall
    /\ managers = [side \in Sides |-> SessionManager_new]
    /\ wire = {}
    /\ chan_last = NoCall
    /\ lock_owner = [l \in Locks |-> NoThread]
    /\ lock_calls = [t \in Threads |-> LockIdle]
    /\ wide_session = WideSession_new
    /\ wide_last = NoCall

\* engine.encode_ecnp(msg_type, payload)
Encode(mt, p) ==
    /\ ecnp_last' = [op |-> "encode", msg_type |-> mt, payload |-> p, res |-> encode(mt, p)]
    /\ UNCHANGED nonCodecVars

\* engine.decode_ecnp(data) on an arbitrary buffer
Decode(data) ==
    /\ ecnp_last' = [op |-> "decode", data |-> data, res |-> decode(data)]
    /\ UNCHANGED nonCodecVars

\* engine.decode_ecnp(frame) on the frame the last encode_ecnp returned
DecodeEncoded ==
    /\ ecnp_last.op = "encode"
    /\ ecnp_last.res.ok
    /\ ecnp_last' = [op |-> "decode_encoded",
                     msg_type |-> ecnp_last.msg_type,
                     payload |-> ecnp_last.payload,
                     data |-> ecnp_last.res.val,
                     res |-> decode(ecnp_last.res.val)]
    /\ UNCHANGED nonCodecVars

\* engine.decode_ecnp on the frame the last encode_ecnp returned, followed by other bytes
DecodeTrailing(x) ==
    /\ ecnp_last.op = "encode"
    /\ ecnp_last.res.ok
    /\ ecnp_last' = [op |-> "decode_trailing",
                     msg_type |-> ecnp_last.msg_type,
                     payload |-> ecnp_last.payload,
                     frame |-> ecnp_last.res.val,
                     trailer |-> x,
                     data |-> Concat(ecnp_last.res.val, x),
                     res |-> decode(Concat(ecnp_last.res.val, x))]
    /\ UNCHANGED nonCodecVars

NextCodec ==
    \/ \E mt \in MessageType, p \in Payloads : Encode(mt, p)
    \/ \E d \in Buffers : Decode(d)
    \/ DecodeEncoded
    \/ \E x \in Trailers : DecodeTrailing(x)

SpecCodec == Init /\ [][NextCodec]_vars

\* engine.evaluate_capability(capability_name, role)
EvaluateCapability(capability_name, role) ==
    /\ policy_last' = [op |-> "evaluate", capability |-> capability_name, role |-> role,
                       res |-> evaluate(policy_engine, capability_name, role)]
    /\ UNCHANGED <<policy_engine, nonPolicyVars>>

NextPolicy ==
    \E c \in CapabilityNames, r \in RoleStrings : EvaluateCapability(c, r)

SpecPolicy == Init /\ [][NextPolicy]_vars

\* SessionManager::create_session.  Uuid::new_v4 draws an identifier that was
\* never drawn before; identifiers are opaque, so the least unused one stands
\* for the one drawn.
CreateSession(sid, peer_id, local_secret, remote_public) ==
    LET r == create_session(sessions, sid, peer_id, local_secret, remote_public, now)
    IN  /\ sid \notin DOMAIN emitted
        /\ \A other \in SessionIds \ DOMAIN emitted : sid <= other
        /\ sessions' = r.sessions
        /\ emitted' = [id \in DOMAIN emitted \cup {sid} |-> IF id = sid THEN <<>> ELSE emitted[id]]
        /\ sess_last' = [op |-> "create_session", sid |-> sid, res |-> r.res]
        /\ UNCHANGED <<now, nonSessionVars>>

\* SessionManager::encrypt; the caller keeps the frame it got back
Encrypt(sid, plaintext) ==
    LET r == encrypt(sessions, sid, plaintext, now)
    IN  /\ sid \in DOMAIN sessions => sessions[sid].nonce_counter < MaxCounter
        /\ sessions' = r.sessions
        /\ emitted' = IF r.res.ok
                      THEN [emitted EXCEPT ![sid] = Append(@, [plaintext |-> plaintext,
                                                               frame |-> r.res.val])]
                      ELSE emitted
        /\ sess_last' = [op |-> "encrypt", sid |-> sid, plaintext |-> plaintext, res |-> r.res]
        /\ UNCHANGED <<now, nonSessionVars>>

\* SessionManager::decrypt
Decrypt(sid, frame) ==
    LET r == decrypt(sessions, sid, frame, now)
    IN  /\ sid \in DOMAIN sessions => sessions[sid].messages_received < MaxReceived
        /\ sessions' = r.sessions
        /\ sess_last' = [op |-> "decrypt", sid |-> sid, frame |-> frame, res |-> r.res]
        /\ UNCHANGED <<now, emitted, nonSessionVars>>

\* SessionManager::close_session
CloseSession(sid) ==
    LET r == close_session(sessions, sid)
    IN  /\ sessions' = r.sessions
        /\ sess_last' = [op |-> "close_session", sid |-> sid, res |-> r.res]
        /\ UNCHANGED <<now, emitted, nonSessionVars>>

\* SessionManager::cleanup_expired
CleanupExpired ==
    LET r == cleanup_expired(sessions, now)
    IN  /\ sessions' = r.sessions
        /\ sess_last' = [op |-> "cleanup_expired", res |-> r.res]
        /\ UNCHANGED <<now, emitted, nonSessionVars>>

\* the clock moves on
Tick ==
    /\ \E t \in Instants : t > now /\ now' = t
    /\ sess_last' = [op |-> "tick"]
    /\ UNCHANGED <<sessions, emitted, nonSessionVars>>

NextSession ==
    \/ \E sid \in SessionIds, peer \in PeerIds, sk \in LocalSecrets, pk \in RemotePublics :
          CreateSession(sid, peer, sk, pk)
    \/ \E sid \in SessionIds, p \in Plaintexts : Encrypt(sid, p)
    \/ \E sid \in SessionIds, f \in EmittedFrames \cup ShortFrames : Decrypt(sid, f)
    \/ \E sid \in SessionIds : CloseSession(sid)
    \/ CleanupExpired
    \/ Tick

SpecSession == Init /\ [][NextSession]_vars

(***************************************************************************)
(* lib.rs: EdgeClawEngine::encrypt_message called from several threads.    *)
(* The call takes the session manager's Mutex, runs SessionManager::encrypt *)
(* statement by statement and drops the guard when it returns.             *)
(***************************************************************************)
\* a lock that never makes its caller wait
MutexFree_always(owner) == TRUE

\* Mutex::lock returns once no thread holds the guard
MutexFree(owner) == owner = NoThread

\* a thread enters encrypt_message(session_id, plaintext) (lib.rs 174-178)
E_Call(t, sid, plaintext) ==
    /\ threads[t].pc = "idle"
    /\ threads' = [threads EXCEPT ![t] = [pc |-> "lock", sid |-> sid, plaintext |-> plaintext]]
    /\ UNCHANGED <<sessionVars, session_lock, codecVars, policyVars, syncVars, clientVars, facadeVars, identityVars, peerVars, strategyVars, channelVars, lockVars, nonceVars>>

\* self.session_manager.lock() returns the guard (lib.rs 179-182)
E_Lock(t) ==
    /\ threads[t].pc = "lock"
    /\ MutexFree(session_lock)
    /\ threads[t].sid \in DOMAIN sessions => sessions[threads[t].sid].nonce_counter < MaxCounter
    /\ session_lock' = t
    /\ threads' = [threads EXCEPT ![t].pc = "lookup"]
    /\ UNCHANGED <<sessionVars, codecVars, policyVars, syncVars, clientVars, facadeVars, identityVars, peerVars, strategyVars, channelVars, lockVars, nonceVars>>

\* sessions.get_mut and the expiry test (session.rs 138-146)
E_Lookup(t) ==
    LET sid == threads[t].sid
    IN  /\ threads[t].pc = "lookup"
        /\ IF sid \notin DOMAIN sessions
           THEN /\ threads' = [threads EXCEPT ![t] = [@ EXCEPT !.pc = "return"] @@
                                                     [res |-> Err("InvalidParameter")]]
                /\ UNCHANGED sessions
           ELSE IF is_expired(sessions[sid], now)
           THEN /\ sessions' = [sessions EXCEPT ![sid].state = "Expired"]
                /\ threads' = [threads EXCEPT ![t] = [@ EXCEPT !.pc = "return"] @@
                                                     [res |-> Err("SessionExpired")]]
           ELSE /\ threads' = [threads EXCEPT ![t].pc = "nonce"]
                /\ UNCHANGED sessions
        /\ UNCHANGED <<now, emitted, sess_last, session_lock, codecVars, policyVars, syncVars, clientVars, facadeVars, identityVars, peerVars, strategyVars, channelVars, lockVars, nonceVars>>

\* the nonce is built from the counter (session.rs 152-153)
E_Nonce(t) ==
    /\ threads[t].pc = "nonce"
    /\ threads' = [threads EXCEPT ![t] =
                      [@ EXCEPT !.pc = "bump"] @@
                      [nonce_bytes |-> nonce_bytes_of(sessions[threads[t].sid].nonce_counter)]]
    /\ UNCHANGED <<sessionVars, session_lock, codecVars, policyVars, syncVars, clientVars, facadeVars, identityVars, peerVars, strategyVars, channelVars, lockVars, nonceVars>>

\* session.nonce_counter += 1 (session.rs 154)
E_Bump(t) ==
    /\ threads[t].pc = "bump"
    /\ sessions' = [sessions EXCEPT ![threads[t].sid].nonce_counter = @ + 1]
    /\ threads' = [threads EXCEPT ![t].pc = "seal"]
    /\ UNCHANGED <<now, emitted, sess_last, session_lock, codecVars, policyVars, syncVars, clientVars, facadeVars, identityVars, peerVars, strategyVars, channelVars, lockVars, nonceVars>>

\* the plaintext is sealed, the frame built, messages_sent counted (session.rs 156-167)
E_Seal(t) ==
    LET sid == threads[t].sid
        ciphertext == aead_encrypt(sessions[sid].session_key, threads[t].nonce_bytes,
                                   threads[t].plaintext)
        result == Concat(Bytes(threads[t].nonce_bytes), ciphertext)
    IN  /\ threads[t].pc = "seal"
        /\ sessions' = [sessions EXCEPT ![sid].messages_sent = @ + 1]
        /\ threads' = [threads EXCEPT ![t] = [@ EXCEPT !.pc = "return"] @@ [res |-> Ok(result)]]
        /\ UNCHANGED <<now, emitted, sess_last, session_lock, codecVars, policyVars, syncVars, clientVars, facadeVars, identityVars, peerVars, strategyVars, channelVars, lockVars, nonceVars>>

\* encrypt_message returns: the guard is dropped, the caller has the result (lib.rs 183-184)
E_Return(t) ==
    LET sid == threads[t].sid
        res == threads[t].res
    IN  /\ threads[t].pc = "return"
        /\ session_lock' = IF session_lock = t THEN NoThread ELSE session_lock
        /\ emitted' = IF res.ok
                      THEN [emitted EXCEPT ![sid] = Append(@, [plaintext |-> threads[t].plaintext,
                                                               frame |-> res.val])]
                      ELSE emitted
        /\ sess_last' = [op |-> "encrypt_message", thread |-> t, sid |-> sid,
                         plaintext |-> threads[t].plaintext, res |-> res]
        /\ threads' = [threads EXCEPT ![t] = Idle]
        /\ UNCHANGED <<sessions, now, codecVars, policyVars, syncVars, clientVars, facadeVars, identityVars, peerVars, strategyVars, channelVars, lockVars, nonceVars>>

\* engine.create_session: the session manager's part runs under its Mutex
E_CreateSession(sid, peer_id, local_secret, remote_public) ==
    /\ MutexFree(session_lock)
    /\ CreateSession(sid, peer_id, local_secret, remote_public)

NextEngine ==
    \/ \E sid \in SessionIds, peer \in PeerIds, sk \in LocalSecrets, pk \in RemotePublics :
          E_CreateSession(sid, peer, sk, pk)
    \/ \E t \in Threads, sid \in SessionIds, p \in Plaintexts : E_Call(t, sid, p)
    \/ \E t \in Threads : E_Lock(t)
    \/ \E t \in Threads : E_Lookup(t)
    \/ \E t \in Threads : E_Nonce(t)
    \/ \E t \in Threads : E_Bump(t)
    \/ \E t \in Threads : E_Seal(t)
    \/ \E t \in Threads : E_Return(t)
    \/ Tick

SpecEngine == Init /\ [][NextEngine]_vars

\* SyncMessage::encode_ecnp on a message
SyncEncode(m) ==
    /\ sync_last' = [op |-> "encode_ecnp", msg |-> m, res |-> sync_encode_ecnp(m)]
    /\ UNCHANGED nonSyncVars

\* SyncMessage::decode_ecnp on the frame the last encode_ecnp returned
SyncDecodeEncoded ==
    /\ sync_last.op = "encode_ecnp"
    /\ sync_last.res.ok
    /\ sync_last' = [op |-> "decode_encoded",
                     msg |-> sync_last.msg,
                     frame |-> sync_last.res.val,
                     res |-> sync_decode_ecnp(sync_last.res.val)]
    /\ UNCHANGED nonSyncVars

\* SyncMessage::decode_ecnp on a frame from elsewhere
SyncDecode(frame) ==
    /\ sync_last' = [op |-> "decode_ecnp", frame |-> frame, res |-> sync_decode_ecnp(frame)]
    /\ UNCHANGED nonSyncVars

NextSync ==
    \/ \E m \in SyncMessages : SyncEncode(m)
    \/ SyncDecodeEncoded
    \/ \E f \in SyncFrames : SyncDecode(f)

SpecSync == Init /\ [][NextSync]_vars

(***************************************************************************)
(* A SyncClient used directly: one connect call at a time, which other     *)
(* calls on the client interleave with at its await points.                *)
(***************************************************************************)
\* the await points of connect
AwaitPoints == {"tcp", "write", "flush", "read_header", "read_payload"}

\* SyncClient::new(config), on a client no call is running on
C_New(config) ==
    /\ conn.pc \in {"idle", "done"}
    /\ client' = SyncClient_new(config)
    /\ conn' = CallIdle
    /\ client_last' = [op |-> "new"]
    /\ UNCHANGED nonClientVars

\* one segment of connect has run and left the client and the locals as in r
C_Segment(r, outcome) ==
    /\ client' = r.client
    /\ conn' = r.call
    /\ client_last' = [op |-> "connect", from |-> conn.pc, outcome |-> outcome]
    /\ UNCHANGED nonClientVars

\* client.connect() is called and runs to its first await point
C_Connect ==
    /\ conn.pc \in {"idle", "done"}
    /\ C_Segment(connect_start(client), "ok")

\* the TCP establish ends: established, timed out or failed
C_Tcp(outcome) ==
    /\ conn.pc = "tcp"
    /\ C_Segment(connect_tcp(client, conn, outcome), outcome)

\* write_all ends
C_Write(outcome) ==
    /\ conn.pc = "write"
    /\ C_Segment(connect_write(client, conn, outcome), outcome)

\* flush ends
C_Flush(outcome) ==
    /\ conn.pc = "flush"
    /\ C_Segment(connect_flush(client, conn, outcome), outcome)

\* the read of the six header bytes ends
C_ReadHeader(outcome, header) ==
    /\ conn.pc = "read_header"
    /\ C_Segment(connect_read_header(client, conn, outcome, header), outcome)

\* the read of the payload ends
C_ReadPayload(outcome) ==
    /\ conn.pc = "read_payload"
    /\ C_Segment(connect_read_payload(client, conn, outcome), outcome)

\* the future of connect is dropped at an await point
C_Cancel ==
    /\ conn.pc \in AwaitPoints
    /\ conn' = CallIdle
    /\ client_last' = [op |-> "cancel", from |-> conn.pc]
    /\ UNCHANGED <<client, nonClientVars>>

\* client.shutdown()
C_Shutdown ==
    /\ client' = SyncClient_shutdown(client)
    /\ client_last' = [op |-> "shutdown"]
    /\ UNCHANGED <<conn, nonClientVars>>

\* client.process_incoming(frame)
C_ProcessIncoming(frame) ==
    /\ client.messages_received < MaxMessages
    /\ LET r == process_incoming(client, frame)
       IN  /\ client' = r.client
           /\ client_last' = [op |-> "process_incoming", frame |-> frame, res |-> r.res]
    /\ UNCHANGED <<conn, nonClientVars>>

\* client.create_remote_exec(command, args)
C_CreateRemoteExec(command, args) ==
    /\ client.messages_sent < MaxMessages
    /\ LET r == create_remote_exec(client, command, args)
       IN  /\ client' = r.client
           /\ client_last' = [op |-> "create_remote_exec", command |-> command,
                              args |-> args, res |-> r.res]
    /\ UNCHANGED <<conn, nonClientVars>>

NextClient ==
    \/ \E cfg \in ClientConfigs : C_New(cfg)
    \/ C_Connect
    \/ \E o \in {"ok", "timeout", "error"} : C_Tcp(o)
    \/ \E o \in {"ok", "error"} : C_Write(o)
    \/ \E o \in {"ok", "error"} : C_Flush(o)
    \/ \E o \in {"ok", "timeout", "error"}, h \in ReplyHeaders : C_ReadHeader(o, h)
    \/ \E o \in {"ok", "timeout", "error"} : C_ReadPayload(o)
    \/ C_Cancel
    \/ C_Shutdown
    \/ \E f \in ClientFrames : C_ProcessIncoming(f)
    \/ \E c \in RemoteExecCommands, a \in {<<>>, <<S_f>>} : C_CreateRemoteExec(c, a)

SpecClient == Init /\ [][NextClient]_vars

(***************************************************************************)
(* lib.rs: the sync calls of EdgeClawEngine.  sync_client is the slot      *)
(* Mutex<Option<SyncClient>>; its guard is taken and dropped inside one    *)
(* segment of each call.  sync_connect runs SyncClient::connect on a       *)
(* temporary client that it builds from the address of the client in the   *)
(* slot; econn holds that client and the locals of the connect call.       *)
(***************************************************************************)
NoConnect == [call |-> CallIdle, temp |-> None]

\* one segment of temp_client.connect() has run and left r
F_Segment(r, outcome) ==
    /\ econn' = [call |-> r.call, temp |-> Some(r.client)]
    /\ engine_last' = [op |-> "sync_connect", from |-> econn.call.pc, outcome |-> outcome]
    /\ UNCHANGED <<sync_client, nonFacadeVars>>

\* engine.init_sync(config)
F_InitSync(config) ==
    /\ sync_client' = Some(SyncClient_new(config))
    /\ engine_last' = [op |-> "init_sync", res |-> Ok("unit")]
    /\ UNCHANGED <<econn, nonFacadeVars>>

\* engine.sync_connect(), to its return or to the first await of connect
F_SyncConnect ==
    /\ econn.call.pc \in {"idle", "done"}
    /\ LET client_state == IF sync_client.some
                           THEN Some(desktop_address(sync_client.val))
                           ELSE None
       IN  IF ~client_state.some
           THEN /\ econn' = [call |-> [CallIdle EXCEPT !.pc = "done",
                                                       !.res = Some(Err("InvalidParameter"))],
                             temp |-> None]
                /\ engine_last' = [op |-> "sync_connect", from |-> econn.call.pc,
                                   outcome |-> "ok"]
                /\ UNCHANGED <<sync_client, nonFacadeVars>>
           ELSE LET temp_config == [SyncClientConfig_default EXCEPT
                                        !.desktop_address = client_state.val]
                    temp_client == SyncClient_new(temp_config)
                IN  F_Segment(connect_start(temp_client), "ok")

\* the TCP establish of the temporary client ends
F_Tcp(outcome) ==
    /\ econn.call.pc = "tcp"
    /\ F_Segment(connect_tcp(econn.temp.val, econn.call, outcome), outcome)

F_Write(outcome) ==
    /\ econn.call.pc = "write"
    /\ F_Segment(connect_write(econn.temp.val, econn.call, outcome), outcome)

F_Flush(outcome) ==
    /\ econn.call.pc = "flush"
    /\ F_Segment(connect_flush(econn.temp.val, econn.call, outcome), outcome)

F_ReadHeader(outcome, header) ==
    /\ econn.call.pc = "read_header"
    /\ F_Segment(connect_read_header(econn.temp.val, econn.call, outcome, header), outcome)

F_ReadPayload(outcome) ==
    /\ econn.call.pc = "read_payload"
    /\ F_Segment(connect_read_payload(econn.temp.val, econn.call, outcome), outcome)

\* the future of sync_connect is dropped at an await point
F_Cancel ==
    /\ econn.call.pc \in AwaitPoints
    /\ econn' = NoConnect
    /\ engine_last' = [op |-> "cancel", from |-> econn.call.pc]
    /\ UNCHANGED <<sync_client, nonFacadeVars>>

\* sync_remote_exec that installs a default client when the slot is empty
F_SyncRemoteExec_lazy(command, args) ==
    /\ sync_client.some => sync_client.val.messages_sent < MaxMessages
    /\ LET c == IF sync_client.some THEN sync_client.val
                ELSE SyncClient_new(SyncClientConfig_default)
           r == create_remote_exec(c, command, args)
       IN  /\ sync_client' = Some(r.client)
           /\ engine_last' = [op |-> "sync_remote_exec", res |-> r.res]
    /\ UNCHANGED <<econn, nonFacadeVars>>

\* engine.sync_remote_exec(command, args)
F_SyncRemoteExec(command, args) ==
    /\ sync_client.some => sync_client.val.messages_sent < MaxMessages
    /\ IF ~sync_client.some
       THEN /\ engine_last' = [op |-> "sync_remote_exec", res |-> Err("InvalidParameter")]
            /\ UNCHANGED sync_client
       ELSE LET r == create_remote_exec(sync_client.val, command, args)
            IN  /\ sync_client' = Some(r.client)
                /\ engine_last' = [op |-> "sync_remote_exec", res |-> r.res]
    /\ UNCHANGED <<econn, nonFacadeVars>>

\* engine.sync_process_incoming(frame)
F_SyncProcessIncoming(frame) ==
    /\ sync_client.some => sync_client.val.messages_received < MaxMessages
    /\ IF ~sync_client.some
       THEN /\ engine_last' = [op |-> "sync_process_incoming", res |-> Err("InvalidParameter")]
            /\ UNCHANGED sync_client
       ELSE LET r == process_incoming(sync_client.val, frame)
            IN  /\ sync_client' = Some(r.client)
                /\ engine_last' = [op |-> "sync_process_incoming", res |-> r.res]
    /\ UNCHANGED <<econn, nonFacadeVars>>

\* engine.sync_shutdown()
F_SyncShutdown ==
    /\ sync_client' = IF sync_client.some THEN Some(SyncClient_shutdown(sync_client.val))
                      ELSE sync_client
    /\ engine_last' = [op |-> "sync_shutdown", res |-> Ok("unit")]
    /\ UNCHANGED <<econn, nonFacadeVars>>

\* engine.sync_is_connected()
F_SyncIsConnected ==
    /\ engine_last' = [op |-> "sync_is_connected",
                       res |-> IF sync_client.some THEN is_connected(sync_client.val) ELSE FALSE]
    /\ UNCHANGED <<sync_client, econn, nonFacadeVars>>

NextFacade ==
    \/ \E cfg \in ClientConfigs : F_InitSync(cfg)
    \/ F_SyncConnect
    \/ \E o \in {"ok", "timeout", "error"} : F_Tcp(o)
    \/ \E o \in {"ok", "error"} : F_Write(o)
    \/ \E o \in {"ok", "error"} : F_Flush(o)
    \/ \E o \in {"ok", "timeout", "error"}, h \in ReplyHeaders : F_ReadHeader(o, h)
    \/ \E o \in {"ok", "timeout", "error"} : F_ReadPayload(o)
    \/ F_Cancel
    \/ \E c \in {S_ls, S_hostname}, a \in {<<>>, <<S_f>>} : F_SyncRemoteExec(c, a)
    \/ \E f \in ClientFrames : F_SyncProcessIncoming(f)
    \/ F_SyncShutdown
    \/ F_SyncIsConnected

SpecFacade == Init /\ [][NextFacade]_vars

(***************************************************************************)
(* lib.rs: the engine calls that touch the identity manager, called from   *)
(* several threads.  Each call runs statement by statement: it takes the   *)
(* identity manager's Mutex, reads or writes the manager, takes the        *)
(* session manager's Mutex where its code does, and drops each guard where *)
(* the guard goes out of scope.  No thread panics, so no Mutex is          *)
(* poisoned.                                                               *)
(***************************************************************************)
\* EngineConfig::default().device_type: "smartphone"
DEVICE_TYPE == Bytes(<<115, 109, 97, 114, 116, 112, 104, 111, 110, 101>>)

\* vec!["status".into(), "file_read".into(), "heartbeat".into()]
ECM_CAPABILITIES ==
    <<Bytes(<<115, 116, 97, 116, 117, 115>>),
      Bytes(<<102, 105, 108, 101, 95, 114, 101, 97, 100>>),
      Bytes(<<104, 101, 97, 114, 116, 98, 101, 97, 116>>)>>

\* the calls a thread makes, with their arguments
IdentityCalls ==
    {[op |-> "generate_identity"], [op |-> "get_identity"], [op |-> "create_ecm"],
     [op |-> "create_heartbeat", uptime_secs |-> 3600,
      cpu_usage |-> F64("25.0"), memory_usage |-> F64("40.0")]}
    \cup {[op |-> "create_session", peer_id |-> peer, peer_public_key |-> pk] :
             peer \in PeerIds, pk \in RemotePublics}

\* the threads inside a call of one kind
InCall(op) == {t \in Threads : callers[t].pc # "idle" /\ callers[t].call.op = op}

\* the locks a thread holds
HeldLocks(t) ==
    (IF identity_lock = t THEN {"identity_manager"} ELSE {})
    \cup (IF session_lock = t THEN {"session_manager"} ELSE {})

\* a thread enters one of the calls
I_Call(t, call) ==
    /\ callers[t].pc = "idle"
    /\ threads[t].pc = "idle"
    /\ call.op = "generate_identity" =>
          Draws(identity_manager) + Cardinality(InCall("generate_identity")) < MaxIdentities
    /\ call.op = "create_session" =>
          Cardinality(DOMAIN emitted) + Cardinality(InCall("create_session")) < MaxSessions
    /\ callers' = [callers EXCEPT ![t] = [pc |-> "lock_identity", call |-> call]]
    /\ UNCHANGED <<identity_manager, identity_lock, id_last, last_generated,
                   sessionVars, threadVars, nonIdentityVars>>

\* self.identity_manager.lock() returns the guard
I_LockIdentity(t) ==
    /\ callers[t].pc = "lock_identity"
    /\ MutexFree(identity_lock)
    /\ identity_lock' = t
    /\ callers' = [callers EXCEPT ![t].pc = "identity"]
    /\ UNCHANGED <<identity_manager, id_last, last_generated,
                   sessionVars, threadVars, nonIdentityVars>>

\* the statements of the call that run on the identity manager, up to the
\* next lock() or to the return
I_Identity(t) ==
    LET call == callers[t].call
        Returns(res) == [callers EXCEPT ![t] = [pc |-> "return", call |-> call, res |-> res]]
    IN  /\ callers[t].pc = "identity"
        /\ CASE call.op = "generate_identity" ->
                  LET r == generate_identity(identity_manager, now)
                  IN  /\ identity_manager' = r.mgr
                      /\ last_generated' = Some(r.res.val)
                      /\ callers' = Returns(r.res)
             [] call.op = "get_identity" ->
                  /\ callers' = Returns(get_identity(identity_manager))
                  /\ UNCHANGED <<identity_manager, last_generated>>
             [] call.op = "create_session" ->
                  LET our_secret == get_secret_key(identity_manager)
                  IN  /\ callers' = IF ~our_secret.ok THEN Returns(our_secret)
                                    ELSE [callers EXCEPT ![t] =
                                             [pc |-> "lock_sessions", call |-> call,
                                              our_secret |-> our_secret.val]]
                      /\ UNCHANGED <<identity_manager, last_generated>>
             [] call.op = "create_ecm" ->
                  LET identity == get_identity(identity_manager)
                  IN  /\ callers' = IF ~identity.ok THEN Returns(identity)
                                    ELSE Returns(protocol_create_ecm(identity.val.device_id,
                                                                     DEVICE_TYPE,
                                                                     ECM_CAPABILITIES))
                      /\ UNCHANGED <<identity_manager, last_generated>>
             [] call.op = "create_heartbeat" ->
                  LET identity == get_identity(identity_manager)
                  IN  /\ callers' = IF ~identity.ok THEN Returns(identity)
                                    ELSE [callers EXCEPT ![t] =
                                             [pc |-> "lock_sessions", call |-> call,
                                              identity |-> identity.val]]
                      /\ UNCHANGED <<identity_manager, last_generated>>
        /\ UNCHANGED <<identity_lock, id_last, sessionVars, threadVars, nonIdentityVars>>

\* self.session_manager.lock() returns the guard; the identity guard is still in scope
I_LockSessions(t) ==
    /\ callers[t].pc = "lock_sessions"
    /\ MutexFree(session_lock)
    /\ session_lock' = t
    /\ callers' = [callers EXCEPT ![t].pc = "sessions"]
    /\ UNCHANGED <<identity_manager, identity_lock, id_last, last_generated,
                   sessionVars, threads, nonIdentityVars>>

\* the statements of the call that run on the session manager.  create_session
\* keeps the guard sess_mgr to its return; create_heartbeat's guard is a
\* temporary of the expression that counts the sessions, and is dropped with it.
I_Sessions(t) ==
    LET call == callers[t].call
        Returns(res) == [callers EXCEPT ![t] = [pc |-> "return", call |-> call, res |-> res]]
    IN  /\ callers[t].pc = "sessions"
        /\ CASE call.op = "create_session" ->
                  \E sid \in SessionIds \ DOMAIN emitted :
                     LET r == create_session(sessions, sid, call.peer_id, callers[t].our_secret,
                                             call.peer_public_key, now)
                     IN  /\ \A other \in SessionIds \ DOMAIN emitted : sid <= other
                         /\ sessions' = r.sessions
                         /\ emitted' = [id \in DOMAIN emitted \cup {sid} |->
                                           IF id = sid THEN <<>> ELSE emitted[id]]
                         /\ callers' = Returns(r.res)
                         /\ UNCHANGED session_lock
             [] call.op = "create_heartbeat" ->
                  LET active == Cardinality(active_sessions(sessions, now))
                  IN  /\ session_lock' = NoThread
                      /\ callers' = Returns(protocol_create_heartbeat(
                                                callers[t].identity.device_id, call.uptime_secs,
                                                call.cpu_usage, call.memory_usage, active))
                      /\ UNCHANGED <<sessions, emitted>>
        /\ UNCHANGED <<identity_manager, identity_lock, id_last, last_generated,
                       now, sess_last, threads, nonIdentityVars>>

\* the call returns: the guards still in scope are dropped, the caller has the result
I_Return(t) ==
    /\ callers[t].pc = "return"
    /\ identity_lock' = IF identity_lock = t THEN NoThread ELSE identity_lock
    /\ session_lock' = IF session_lock = t THEN NoThread ELSE session_lock
    /\ id_last' = [op |-> callers[t].call.op, thread |-> t, call |-> callers[t].call,
                   res |-> callers[t].res]
    /\ callers' = [callers EXCEPT ![t] = Idle]
    /\ UNCHANGED <<identity_manager, last_generated, sessionVars, threads, nonIdentityVars>>

\* the clock moves
I_Tick ==
    /\ \E t \in Instants : t > now /\ now' = t
    /\ UNCHANGED <<sessions, emitted, sess_last, threadVars, identityVars, nonIdentityVars>>

NextIdentity ==
    \/ \E t \in Threads, call \in IdentityCalls : I_Call(t, call)
    \/ \E t \in Threads : I_LockIdentity(t)
    \/ \E t \in Threads : I_Identity(t)
    \/ \E t \in Threads : I_LockSessions(t)
    \/ \E t \in Threads : I_Sessions(t)
    \/ \E t \in Threads : I_Return(t)
    \/ I_Tick

SpecIdentity == Init /\ [][NextIdentity]_vars

(***************************************************************************)
(* A PeerManager used through its methods, one call at a time (the engine  *)
(* runs each of them under the peer manager's Mutex).                      *)
(***************************************************************************)
\* PeerManager::add_peer
P_AddPeer(peer_id, d) ==
    LET r == add_peer(peer_manager, peer_id, d.device_name, d.device_type, d.address,
                      d.capabilities, now)
    IN  /\ peer_manager' = r.peers
        /\ peer_last' = [op |-> "add_peer", peer_id |-> peer_id, desc |-> d, res |-> r.res]
        /\ UNCHANGED nonPeerVars

\* PeerManager::set_connected
P_SetConnected(peer_id, connected) ==
    LET r == set_connected(peer_manager, peer_id, connected, now)
    IN  /\ peer_manager' = r.peers
        /\ peer_last' = [op |-> "set_connected", peer_id |-> peer_id, res |-> r.res]
        /\ UNCHANGED nonPeerVars

\* PeerManager::remove_peer
P_RemovePeer(peer_id) ==
    LET r == remove_peer(peer_manager, peer_id)
    IN  /\ peer_manager' = r.peers
        /\ peer_last' = [op |-> "remove_peer", peer_id |-> peer_id, res |-> r.res]
        /\ UNCHANGED nonPeerVars

\* PeerManager::get_peer
P_GetPeer(peer_id) ==
    /\ peer_last' = [op |-> "get_peer", peer_id |-> peer_id, res |-> get_peer(peer_manager, peer_id)]
    /\ UNCHANGED <<peer_manager, nonPeerVars>>

\* PeerManager::list_peers, connected_peers and count
P_ListPeers ==
    /\ peer_last' = [op |-> "list_peers",
                     res |-> [list_peers |-> list_peers(peer_manager),
                              connected_peers |-> connected_peers(peer_manager),
                              count |-> count(peer_manager)]]
    /\ UNCHANGED <<peer_manager, nonPeerVars>>

\* PeerManager::cleanup_stale
P_CleanupStale(timeout_secs) ==
    LET r == cleanup_stale(peer_manager, timeout_secs, now)
    IN  /\ peer_manager' = r.peers
        /\ peer_last' = [op |-> "cleanup_stale", timeout_secs |-> timeout_secs, res |-> r.res]
        /\ UNCHANGED nonPeerVars

\* the clock moves
P_Tick ==
    /\ \E t \in Instants : t > now /\ now' = t
    /\ peer_last' = [op |-> "tick"]
    /\ UNCHANGED <<peer_manager, sessions, emitted, sess_last, threadVars, identityVars,
                   codecVars, policyVars, syncVars, clientVars, facadeVars,
                   strategyVars, channelVars, lockVars, nonceVars>>

NextPeers ==
    \/ \E id \in RegistryIds, d \in PeerDescriptions : P_AddPeer(id, d)
    \/ \E id \in RegistryIds, c \in BOOLEAN : P_SetConnected(id, c)
    \/ \E id \in RegistryIds : P_RemovePeer(id)
    \/ \E id \in RegistryIds : P_GetPeer(id)
    \/ P_ListPeers
    \/ \E timeout \in StaleTimeouts : P_CleanupStale(timeout)
    \/ P_Tick

SpecPeers == Init /\ [][NextPeers]_vars

(***************************************************************************)
(* determine_connection_strategy called again and again; the state keeps   *)
(* the last two calls.                                                     *)
(***************************************************************************)
DetermineConnectionStrategy(preference, ble_device_available, lan_address) ==
    /\ strategy_prev' = strategy_last
    /\ strategy_last' = [op |-> "determine_connection_strategy",
                         preference |-> preference,
                         ble_device_available |-> ble_device_available,
                         lan_address |-> lan_address,
                         res |-> determine_connection_strategy(preference, ble_device_available,
                                                               lan_address)]
    /\ UNCHANGED nonStrategyVars

NextStrategy ==
    \E preference \in TransportPreference, ble \in BOOLEAN, lan \in LanAddresses :
       DetermineConnectionStrategy(preference, ble, lan)

SpecStrategy == Init /\ [][NextStrategy]_vars

(***************************************************************************)
(* Two peers, each with its own SessionManager, that create sessions from  *)
(* complementary key pairs and exchange the frames their encrypts return.  *)
(***************************************************************************)
\* SessionManager::create_session on one peer
Ch_CreateSession(side, sid) ==
    LET remote_public == SideRemote(side, sid)
        r == create_session(managers[side], sid, "peer-1", SideSecret(side), remote_public, now)
    IN  /\ sid \in SideSessionIds(side) \ DOMAIN managers[side]
        /\ \A other \in SideSessionIds(side) \ DOMAIN managers[side] : sid <= other
        /\ managers' = [managers EXCEPT ![side] = r.sessions]
        /\ chan_last' = [op |-> "create_session", side |-> side, sid |-> sid,
                         remote_public |-> remote_public, res |-> r.res]
        /\ UNCHANGED <<wire, nonChannelVars>>

\* SessionManager::encrypt on one peer; the frame goes on the wire
Ch_Encrypt(side, sid) ==
    LET r == encrypt(managers[side], sid, SidePlaintext(side), now)
    IN  /\ sid \in DOMAIN managers[side]
        /\ managers[side][sid].nonce_counter < MaxExchanged
        /\ managers' = [managers EXCEPT ![side] = r.sessions]
        /\ wire' = IF r.res.ok
                   THEN wire \cup {[from |-> side, sid |-> sid,
                                    index |-> r.sessions[sid].messages_sent,
                                    plaintext |-> SidePlaintext(side), frame |-> r.res.val]}
                   ELSE wire
        /\ chan_last' = [op |-> "encrypt", side |-> side, sid |-> sid,
                         plaintext |-> SidePlaintext(side), res |-> r.res]
        /\ UNCHANGED nonChannelVars

\* SessionManager::decrypt on one peer, of a frame taken from the wire
Ch_Decrypt(side, sid, frame) ==
    LET r == decrypt(managers[side], sid, frame, now)
    IN  /\ sid \in DOMAIN managers[side]
        /\ managers[side][sid].messages_received < MaxExchanged
        /\ managers' = [managers EXCEPT ![side] = r.sessions]
        /\ chan_last' = [op |-> "decrypt", side |-> side, sid |-> sid, frame |-> frame,
                         res |-> r.res]
        /\ UNCHANGED <<wire, nonChannelVars>>

\* the clock moves
Ch_Tick ==
    /\ \E t \in ChannelInstants : t > now /\ now' = t
    /\ chan_last' = [op |-> "tick"]
    /\ UNCHANGED <<managers, wire, sessions, emitted, sess_last, threadVars, identityVars,
                   peerVars, strategyVars, codecVars, policyVars, syncVars, clientVars,
                   facadeVars, lockVars, nonceVars>>

NextChannel ==
    \/ \E side \in Sides : \E sid \in SideSessionIds(side) : Ch_CreateSession(side, sid)
    \/ \E side \in Sides : \E sid \in SideSessionIds(side) : Ch_Encrypt(side, sid)
    \/ \E side \in Sides : \E sid \in SideSessionIds(side), f \in ChannelFrames :
          Ch_Decrypt(side, sid, f)
    \/ Ch_Tick

SpecChannel == Init /\ [][NextChannel]_vars

(***************************************************************************)
(* lib.rs: the Mutex guards each engine method takes and drops, in the     *)
(* order of its statements.  What a method computes under a guard is left  *)
(* to the other specifications; here a `?` either goes on or returns.      *)
(***************************************************************************)
Lock(l) == [do |-> "lock", lock |-> l]
Drop(l) == [do |-> "drop", lock |-> l]
Question == [do |-> "try", lock |-> "none"]
AwaitPoint == [do |-> "await", lock |-> "none"]

EngineMethods ==
    {"generate_identity", "get_identity", "add_peer", "get_peers", "remove_peer",
     "create_session", "encrypt_message", "decrypt_message", "create_ecm", "create_heartbeat",
     "init_sync", "sync_connect", "sync_remote_exec", "sync_process_incoming", "sync_shutdown",
     "sync_is_connected"}

\* create_heartbeat taking the session guard before the identity guard
LockProgram_sessions_first(op) ==
    CASE op \in {"generate_identity", "get_identity"} -> <<Lock("identity_manager")>>
      [] op = "create_ecm" -> <<Lock("identity_manager"), Question>>
      [] op = "create_session" -> <<Lock("identity_manager"), Question, Lock("session_manager")>>
      [] op = "create_heartbeat" ->
            <<Lock("session_manager"), Lock("identity_manager"), Question, Drop("session_manager")>>
      [] op \in {"encrypt_message", "decrypt_message"} -> <<Lock("session_manager")>>
      [] op \in {"add_peer", "get_peers", "remove_peer"} -> <<Lock("peer_manager")>>
      [] op \in {"init_sync", "sync_shutdown", "sync_is_connected"} -> <<Lock("sync_client")>>
      [] op \in {"sync_remote_exec", "sync_process_incoming"} -> <<Lock("sync_client"), Question>>
      [] op = "sync_connect" -> <<Lock("sync_client"), Drop("sync_client"), Question, AwaitPoint>>

\* the guards of an engine method, in statement order; the guards still in
\* scope at the end of the method are dropped when it returns
LockProgram(op) ==
    CASE op \in {"generate_identity", "get_identity"} -> <<Lock("identity_manager")>>
      [] op = "create_ecm" -> <<Lock("identity_manager"), Question>>
      [] op = "create_session" -> <<Lock("identity_manager"), Question, Lock("session_manager")>>
      [] op = "create_heartbeat" ->
            <<Lock("identity_manager"), Question, Lock("session_manager"), Drop("session_manager")>>
      [] op \in {"encrypt_message", "decrypt_message"} -> <<Lock("session_manager")>>
      [] op \in {"add_peer", "get_peers", "remove_peer"} -> <<Lock("peer_manager")>>
      [] op \in {"init_sync", "sync_shutdown", "sync_is_connected"} -> <<Lock("sync_client")>>
      [] op \in {"sync_remote_exec", "sync_process_incoming"} -> <<Lock("sync_client"), Question>>
      [] op = "sync_connect" -> <<Lock("sync_client"), Drop("sync_client"), Question, AwaitPoint>>

\* the statement a thread is at, or Returning past the last one
Returning == [do |-> "return", lock |-> "none"]
LockStep(t) ==
    LET program == LockProgram(lock_calls[t].op)
    IN  IF lock_calls[t].pc = 0 THEN [do |-> "idle", lock |-> "none"]
        ELSE IF lock_calls[t].pc > Len(program) THEN Returning
        ELSE program[lock_calls[t].pc]

\* the guards a thread holds
LocksHeld(t) == {l \in Locks : lock_owner[l] = t}

\* a thread enters an engine method
L_Call(t, op) ==
    /\ lock_calls[t].pc = 0
    /\ lock_calls' = [lock_calls EXCEPT ![t] = [op |-> op, pc |-> 1, failed |-> FALSE]]
    /\ UNCHANGED <<lock_owner, nonLockVars>>

\* Mutex::lock returns the guard
L_Acquire(t) ==
    /\ LockStep(t).do = "lock"
    /\ MutexFree(lock_owner[LockStep(t).lock])
    /\ lock_owner' = [lock_owner EXCEPT ![LockStep(t).lock] = t]
    /\ lock_calls' = [lock_calls EXCEPT ![t].pc = @ + 1]
    /\ UNCHANGED nonLockVars

\* a guard goes out of scope before the method ends
L_Drop(t) ==
    /\ LockStep(t).do = "drop"
    /\ lock_owner' = [lock_owner EXCEPT ![LockStep(t).lock] = NoThread]
    /\ lock_calls' = [lock_calls EXCEPT ![t].pc = @ + 1]
    /\ UNCHANGED nonLockVars

\* a `?`: the method goes on, or returns the error
L_Try(t) ==
    /\ LockStep(t).do = "try"
    /\ \E failed \in BOOLEAN :
          lock_calls' = [lock_calls EXCEPT
                            ![t].pc = IF failed THEN Len(LockProgram(lock_calls[t].op)) + 1
                                      ELSE @ + 1,
                            ![t].failed = failed]
    /\ UNCHANGED <<lock_owner, nonLockVars>>

\* temp_client.connect().await completes
L_Await(t) ==
    /\ LockStep(t).do = "await"
    /\ lock_calls' = [lock_calls EXCEPT ![t].pc = @ + 1]
    /\ UNCHANGED <<lock_owner, nonLockVars>>

\* the method returns: the guards still in scope are dropped
L_Return(t) ==
    /\ LockStep(t) = Returning
    /\ lock_owner' = [l \in Locks |-> IF lock_owner[l] = t THEN NoThread ELSE lock_owner[l]]
    /\ lock_calls' = [lock_calls EXCEPT ![t].pc = 0]
    /\ UNCHANGED nonLockVars

\* a step of a thread inside a method that waits for nothing
L_Run(t) == L_Drop(t) \/ L_Try(t) \/ L_Return(t)

NextLocks ==
    \/ \E t \in Threads, op \in EngineMethods : L_Call(t, op)
    \/ \E t \in Threads : L_Acquire(t)
    \/ \E t \in Threads : L_Drop(t)
    \/ \E t \in Threads : L_Try(t)
    \/ \E t \in Threads : L_Await(t)
    \/ \E t \in Threads : L_Return(t)

\* the scheduler runs every thread, and a thread waiting on a Mutex that is
\* released again and again is granted it; nothing is assumed of the network
FairSpecLocks ==
    /\ Init /\ [][NextLocks]_vars
    /\ \A t \in Threads : WF_vars(L_Run(t))
    /\ \A t \in Threads : SF_vars(L_Acquire(t))

(***************************************************************************)
(* One session whose nonce counter and messages_sent are u64 values, taken *)
(* through many encrypts at once and then encrypt by encrypt.              *)
(***************************************************************************)
\* numbers of encrypts that bring the counter next to a carry of each byte,
\* and to the last two values of a u64
AdvanceCounts ==
    {[i \in 1..8 |-> IF i > 8 - k THEN 255 ELSE 0] : k \in 1..8}
    \cup {U64_ZERO, u64_succ(U64_ZERO), [i \in 1..8 |-> IF i = 8 THEN 254 ELSE 255]}

WidePlaintexts == {Bytes(<<>>), TestMessage, HeartbeatData}

\* `n` encrypts in a row on the new session, none of them at u64::MAX:
\* each used the counter as its nonce and added one to both fields
W_Advance(n) ==
    /\ wide_session = WideSession_new
    /\ wide_last = NoCall
    /\ wide_session' = [wide_session EXCEPT !.nonce_counter = n,
                                             !.messages_sent = n,
                                             !.advanced = n]
    /\ wide_last' = [op |-> "advance", encrypts |-> n]
    /\ UNCHANGED nonNonceVars

\* one encrypt, in a build with or without overflow checks
W_Encrypt(plaintext, overflow_checks) ==
    LET r == encrypt_wide(wide_session, plaintext, overflow_checks)
    IN  /\ wide_last.op # "none"
        /\ wide_last.op = "encrypt" =>
              (wide_last.overflow_checks = overflow_checks /\ wide_last.res.ok)
        /\ Len(wide_session.nonces) < MaxWide
        /\ wide_session' = r.session
        /\ wide_last' = [op |-> "encrypt", plaintext |-> plaintext,
                         overflow_checks |-> overflow_checks, res |-> r.res]
        /\ UNCHANGED nonNonceVars

NextWide ==
    \/ \E n \in AdvanceCounts : W_Advance(n)
    \/ \E plaintext \in WidePlaintexts, overflow_checks \in BOOLEAN :
          W_Encrypt(plaintext, overflow_checks)

SpecWide == Init /\ [][NextWide]_vars

(***************************************************************************)
(* One SessionManager holding up to two sessions created at different      *)
(* times, with the read operations and the two removals.                   *)
(***************************************************************************)
\* the identifiers Uuid::new_v4 draws for the two sessions
ExpirySessionIds == {1, 2}

\* SessionManager::get_session
GetSession(sid) ==
    /\ sess_last' = [op |-> "get_session", sid |-> sid, res |-> get_session(sessions, sid)]
    /\ UNCHANGED <<sessions, now, emitted, nonSessionVars>>

\* SessionManager::active_sessions
ActiveSessions ==
    /\ sess_last' = [op |-> "active_sessions", res |-> active_sessions(sessions, now)]
    /\ UNCHANGED <<sessions, now, emitted, nonSessionVars>>

NextExpiry ==
    \/ \E sid \in ExpirySessionIds : CreateSession(sid, "peer-1", "a", PublicKey("b"))
    \/ \E sid \in ExpirySessionIds : Encrypt(sid, TestMessage)
    \/ \E sid \in ExpirySessionIds, f \in EmittedFrames \cup {Fill(0, 11)} : Decrypt(sid, f)
    \/ \E sid \in ExpirySessionIds : CloseSession(sid)
    \/ \E sid \in ExpirySessionIds : GetSession(sid)
    \/ ActiveSessions
    \/ CleanupExpired
    \/ Tick

SpecExpiry == Init /\ [][NextExpiry]_vars

(***************************************************************************)
(* Claims about the session manager                                        *)
(***************************************************************************)
\* a sequence of bytes read as one big-endian number
RECURSIVE BigEndian(_)
BigEndian(bs) ==
    IF bs = <<>> THEN 0 ELSE BigEndian(SubSeq(bs, 1, Len(bs) - 1)) * 256 + bs[Len(bs)]

\* the step is a call of op on a stored session
SessionCall(op) ==
    /\ sess_last'.op = op
    /\ sess_last'.sid \in DOMAIN sessions

\* what a successful encrypt does to its session and what it returns
C4_EncryptStep ==
    (SessionCall("encrypt") /\ sess_last'.res.ok) =>
        LET sid == sess_last'.sid
            frame == sess_last'.res.val
            nonce == ToSeq(Slice(frame, 0, 12))
        IN  /\ sessions'[sid].messages_sent = sessions[sid].messages_sent + 1
            /\ sessions'[sid].messages_received = sessions[sid].messages_received
            /\ SubSeq(nonce, 1, 4) = <<0, 0, 0, 0>>
            /\ \A i \in 5..12 : nonce[i] \in 0..255
            /\ BigEndian(SubSeq(nonce, 5, 12)) = sessions[sid].nonce_counter
            /\ BLen(frame) = 12 + BLen(sess_last'.plaintext) + 16
            /\ Slice(frame, 12, BLen(frame))
                  = aead_encrypt(sessions[sid].session_key, nonce, sess_last'.plaintext)

\* what decrypt does with a frame an encrypt of the same session returned
C4_DecryptStep ==
    SessionCall("decrypt") =>
        LET sid == sess_last'.sid
        IN  /\ sess_last'.res.ok =>
                  /\ sessions'[sid].messages_received = sessions[sid].messages_received + 1
                  /\ sessions'[sid].messages_sent = sessions[sid].messages_sent
            /\ now < sessions[sid].expires_at =>
                  \A i \in 1..Len(emitted[sid]) :
                      emitted[sid][i].frame = sess_last'.frame =>
                          sess_last'.res = Ok(emitted[sid][i].plaintext)

\* C4: on a session that is not expired encrypt succeeds, returns the 12-byte
\* nonce (four zero bytes, then the counter before the call as 8 big-endian
\* bytes) followed by the ciphertext and adds one to messages_sent; decrypt of
\* that frame on the same session returns the plaintext and adds one to
\* messages_received.
C4_EncryptDecrypt ==
    [][/\ (SessionCall("encrypt") /\ now < sessions[sess_last'.sid].expires_at)
             => sess_last'.res.ok
       /\ C4_EncryptStep
       /\ C4_DecryptStep]_vars

\* "EdgeClaw test message" has been encrypted and decrypted on one session: sent 1, received 1
C4_Witness ==
    /\ sess_last.op = "decrypt"
    /\ sess_last.res = Ok(TestMessage)
    /\ sess_last.sid \in DOMAIN sessions
    /\ sessions[sess_last.sid].messages_sent = 1
    /\ sessions[sess_last.sid].messages_received = 1
    /\ \E i \in 1..Len(emitted[sess_last.sid]) :
          emitted[sess_last.sid][i] = [plaintext |-> TestMessage, frame |-> sess_last.frame]

\* the call fails with SessionExpired, marks the session and leaves its counters
C6_ExpiredEffect(sid) ==
    /\ IsErr(sess_last'.res, "SessionExpired")
    /\ sessions'[sid].state = "Expired"
    /\ sessions'[sid].nonce_counter = sessions[sid].nonce_counter
    /\ sessions'[sid].messages_sent = sessions[sid].messages_sent
    /\ sessions'[sid].messages_received = sessions[sid].messages_received

\* once Expired: the state stays Expired and no encrypt or decrypt succeeds
C6_ExpiredForGood ==
    \A sid \in DOMAIN sessions :
        sessions[sid].state = "Expired" =>
            /\ sid \in DOMAIN sessions' => sessions'[sid].state = "Expired"
            /\ ~(/\ sess_last'.op \in {"encrypt", "decrypt"}
                  /\ sess_last'.sid = sid
                  /\ sess_last'.res.ok)

\* C6 as stated: at or past the expiry every encrypt and every decrypt fails
\* with SessionExpired, sets the state to Expired and leaves the counters.
C6_AsStated ==
    [][/\ ((SessionCall("encrypt") \/ SessionCall("decrypt"))
            /\ now >= sessions[sess_last'.sid].expires_at)
             => C6_ExpiredEffect(sess_last'.sid)
       /\ C6_ExpiredForGood]_vars

\* C6 (amended): at or past the expiry, encrypt and decrypt of a frame of at
\* least 12 bytes fail with SessionExpired, set the state to Expired and leave
\* nonce counter, messages_sent and messages_received unchanged; once Expired,
\* no encrypt or decrypt succeeds and the state stays Expired.
C6_Expiry ==
    [][/\ ((SessionCall("encrypt")
             \/ (SessionCall("decrypt") /\ BLen(sess_last'.frame) >= 12))
            /\ now >= sessions[sess_last'.sid].expires_at)
             => C6_ExpiredEffect(sess_last'.sid)
       /\ C6_ExpiredForGood]_vars

\* an encrypt at the very second of expiry has failed and marked the session
C6_Witness ==
    /\ sess_last.op = "encrypt"
    /\ sess_last.sid \in DOMAIN sessions
    /\ now = sessions[sess_last.sid].expires_at
    /\ IsErr(sess_last.res, "SessionExpired")
    /\ sessions[sess_last.sid].state = "Expired"
    /\ sessions[sess_last.sid].messages_sent > 0

\* the nonces a session's encrypts returned, as numbers, in the order of return
EmittedNonces(sid) ==
    [i \in 1..Len(emitted[sid]) |-> BigEndian(ToSeq(Slice(emitted[sid][i].frame, 0, 12)))]

\* C5: the nonces returned by the successful encrypts of one session are
\* strictly increasing, the first being 0, under every interleaving of
\* concurrent encrypt_message calls; no nonce is returned twice.
C5_NonceMonotonic ==
    \A sid \in DOMAIN emitted :
        LET ns == EmittedNonces(sid)
        IN  /\ Len(ns) > 0 => ns[1] = 0
            /\ \A i, j \in 1..Len(ns) : i < j => ns[i] < ns[j]

\* one thread's encrypt_message has returned nonce 0, the other thread, which
\* waited for the lock meanwhile, is sealing under nonce 1, and the first is
\* waiting for the lock again
C5_Witness ==
    \E sid \in DOMAIN emitted, a, b \in Threads :
        /\ a # b
        /\ EmittedNonces(sid) = <<0>>
        /\ sess_last.op = "encrypt_message" /\ sess_last.thread = a
        /\ threads[a].pc = "lock" /\ threads[a].sid = sid
        /\ threads[b].pc = "seal" /\ threads[b].sid = sid
        /\ BigEndian(threads[b].nonce_bytes) = 1
        /\ session_lock = b

(***************************************************************************)
(* Claims about the policy engine                                          *)
(***************************************************************************)
\* the risk table of the catalogue
C7_Risk(c) ==
    CASE c \in {"status_query", "heartbeat"} -> 0
      [] c \in {"file_read", "sensor_read", "clipboard_read"} -> 1
      [] c \in {"file_write", "config_change", "clipboard_write"} -> 2
      [] c \in {"shell_exec", "firmware_update", "system_reboot"} -> 3

\* the role table: Viewer 0, Operator 1, Admin 2, Owner 3
C7_MaxRisk(r) ==
    CASE r = VIEWER -> 0
      [] r = OPERATOR -> 1
      [] r = ADMIN -> 2
      [] r = OWNER -> 3

\* C7: for a catalogue capability c and a role r of viewer, operator, admin,
\* owner, evaluate returns allowed = (risk(c) <= maxRisk(r)) and risk_level = risk(c).
C7_RiskComparison ==
    (/\ policy_last.op = "evaluate"
     /\ policy_last.capability \in CatalogueNames
     /\ policy_last.role \in {VIEWER, OPERATOR, ADMIN, OWNER}) =>
        /\ policy_last.res.ok
        /\ policy_last.res.val.allowed
              = (C7_Risk(policy_last.capability) <= C7_MaxRisk(policy_last.role))
        /\ policy_last.res.val.risk_level = C7_Risk(policy_last.capability)
        /\ policy_last.role = OWNER => policy_last.res.val.allowed
        /\ policy_last.role = VIEWER =>
              (policy_last.res.val.allowed <=> C7_Risk(policy_last.capability) = 0)

\* an admin has been allowed a risk-2 capability
C7_Witness ==
    /\ policy_last.op = "evaluate"
    /\ policy_last.capability = "file_write"
    /\ policy_last.role = ADMIN
    /\ policy_last.res.ok
    /\ policy_last.res.val.allowed
    /\ policy_last.res.val.risk_level = 2

\* the role string spells name when the case of ASCII letters is ignored
C9_EqIgnoreCase(s, name) ==
    /\ Len(s) = Len(name)
    /\ \A i \in 1..Len(s) :
          \/ s[i] = name[i]
          \/ \E k \in 1..26 : LowerCase[k] = name[i] /\ UpperCase[k] = s[i]

C9_ValidRole(s) == \E name \in {VIEWER, OPERATOR, ADMIN, OWNER} : C9_EqIgnoreCase(s, name)

\* C8: for a capability name that is not in the catalogue and any valid role,
\* evaluate returns allowed = FALSE with risk_level 3; default_deny is on in
\* every reachable state.
C8_DefaultDeny ==
    /\ policy_engine.default_deny
    /\ (/\ policy_last.op = "evaluate"
        /\ policy_last.capability \notin CatalogueNames
        /\ C9_ValidRole(policy_last.role)) =>
           /\ policy_last.res.ok
           /\ ~policy_last.res.val.allowed
           /\ policy_last.res.val.risk_level = 3

\* an owner has been denied a name that differs from a catalogue name only by case
C8_Witness ==
    /\ policy_last.op = "evaluate"
    /\ policy_last.capability = "Shell_Exec"
    /\ policy_last.role = OWNER
    /\ policy_last.res.ok
    /\ ~policy_last.res.val.allowed
    /\ policy_last.res.val.risk_level = 3

\* C9: evaluate fails exactly when the role string is not viewer, operator,
\* admin or owner compared case-insensitively, with InvalidParameter, whether
\* or not the capability is known; it never fails with PolicyDenied.
C9_RoleErrors ==
    policy_last.op = "evaluate" =>
        /\ ~C9_ValidRole(policy_last.role) <=> IsErr(policy_last.res, "InvalidParameter")
        /\ C9_ValidRole(policy_last.role) <=> policy_last.res.ok
        /\ ~IsErr(policy_last.res, "PolicyDenied")

\* a mixed-case role has been accepted for an unknown capability, and a
\* role that is not one of the four has been refused for a known one
C9_Witness ==
    /\ policy_last.op = "evaluate"
    /\ \/ /\ policy_last.role = RS_AdMiN
          /\ policy_last.capability = "launch_missiles"
          /\ policy_last.res.ok
       \/ /\ policy_last.role = RS_hacker
          /\ policy_last.capability = "status_query"
          /\ IsErr(policy_last.res, "InvalidParameter")

(***************************************************************************)
(* Claims about the codec                                                  *)
(***************************************************************************)
\* the four length bytes of a buffer read as one big-endian number
DeclaredLength(data) ==
    ((At(data, 2) * 256 + At(data, 3)) * 256 + At(data, 4)) * 256 + At(data, 5)

\* C1: encode succeeds for every message type and every payload of at most
\* 1,048,576 bytes, and decode of the frame it returns succeeds with version
\* 0x01, the same type byte and the same payload.
C1_RoundTrip ==
    /\ (ecnp_last.op = "encode" /\ BLen(ecnp_last.payload) <= 1048576) => ecnp_last.res.ok
    /\ ecnp_last.op = "decode_encoded" =>
          /\ ecnp_last.res.ok
          /\ ecnp_last.res.val.version = 1
          /\ ecnp_last.res.val.msg_type = MessageTypeCode(ecnp_last.msg_type)
          /\ ecnp_last.res.val.payload = ecnp_last.payload

\* a frame carrying a payload of exactly 1 MiB has been encoded and decoded
C1_Witness ==
    /\ ecnp_last.op = "decode_encoded"
    /\ BLen(ecnp_last.payload) = 1048576
    /\ ecnp_last.res.ok
    /\ ecnp_last.res.val.payload = ecnp_last.payload

\* the five rejection conditions of decode, read off the buffer
C2_Rejects(data) ==
    \/ BLen(data) < 6
    \/ At(data, 0) # 1
    \/ At(data, 1) \notin 1..6
    \/ DeclaredLength(data) > 1048576
    \/ BLen(data) < 6 + DeclaredLength(data)

\* C2: decode fails with InvalidParameter exactly under the five rejection
\* conditions, and a decoded frame has version 0x01, a known message type and
\* a payload of at most 1,048,576 bytes.
C2_DecodeRejects ==
    ecnp_last.op \in {"decode", "decode_encoded"} =>
        /\ C2_Rejects(ecnp_last.data) <=> IsErr(ecnp_last.res, "InvalidParameter")
        /\ ~C2_Rejects(ecnp_last.data) <=> ecnp_last.res.ok
        /\ ecnp_last.res.ok =>
              /\ ecnp_last.res.val.version = 1
              /\ ecnp_last.res.val.msg_type \in 1..6
              /\ BLen(ecnp_last.res.val.payload) <= 1048576
              /\ BLen(ecnp_last.res.val.payload) = DeclaredLength(ecnp_last.data)

\* decode has rejected a well-formed header that declares one byte more than the maximum
C2_Witness ==
    /\ ecnp_last.op = "decode"
    /\ BLen(ecnp_last.data) >= 6 + 1048577
    /\ At(ecnp_last.data, 0) = 1
    /\ At(ecnp_last.data, 1) \in 1..6
    /\ DeclaredLength(ecnp_last.data) = 1048577
    /\ IsErr(ecnp_last.res, "InvalidParameter")

\* C3: encode fails with InvalidParameter exactly when the payload is longer
\* than 1,048,576 bytes; otherwise the frame is 0x01, the type code, the
\* payload length as four big-endian bytes and the payload, 6 + len bytes in all.
C3_EncodeLayout ==
    ecnp_last.op = "encode" =>
        LET p == ecnp_last.payload
            r == ecnp_last.res
        IN  /\ BLen(p) > 1048576 <=> IsErr(r, "InvalidParameter")
            /\ BLen(p) <= 1048576 <=> r.ok
            /\ r.ok =>
                  /\ BLen(r.val) = 6 + BLen(p)
                  /\ At(r.val, 0) = 1
                  /\ At(r.val, 1) = MessageTypeCode(ecnp_last.msg_type)
                  /\ \A i \in 2..5 : At(r.val, i) \in 0..255
                  /\ DeclaredLength(r.val) = BLen(p)
                  /\ Slice(r.val, 6, 6 + BLen(p)) = p

\* encode(Heartbeat, "heartbeat data") has returned 01 04 00 00 00 0E and 14 more bytes
C3_Witness ==
    /\ ecnp_last.op = "encode"
    /\ ecnp_last.msg_type = "Heartbeat"
    /\ ecnp_last.payload = HeartbeatData
    /\ ecnp_last.res.ok
    /\ Slice(ecnp_last.res.val, 0, 6) = Bytes(<<1, 4, 0, 0, 0, 14>>)
    /\ BLen(ecnp_last.res.val) = 20

(***************************************************************************)
(* Claims about the sync message layer                                     *)
(***************************************************************************)
\* the sub-type code the claim gives each variant
C10_Code(m) ==
    CASE m.variant = "ConfigSync" -> 16
      [] m.variant = "RemoteExec" -> 17
      [] m.variant = "StatusPush" -> 18
      [] m.variant = "RemoteExecResult" -> 19

\* the result of encode_ecnp is a Data frame whose first payload byte is the code
C10_DataFrame(m, r) ==
    /\ r.ok
    /\ BLen(r.val) >= 7
    /\ At(r.val, 0) = 1
    /\ At(r.val, 1) = 2
    /\ BLen(r.val) = 6 + DeclaredLength(r.val)
    /\ At(r.val, 6) = C10_Code(m)

\* encode_ecnp gave a Data frame, and decode_ecnp of it gave back the code and the message
C10_RoundTripOf(m) ==
    /\ sync_last.op = "encode_ecnp" => C10_DataFrame(m, sync_last.res)
    /\ sync_last.op = "decode_encoded" =>
          /\ sync_last.res.ok
          /\ sync_last.res.val = <<C10_Code(m), m>>

\* the f64 fields of a message are finite
C10_Finite(m) ==
    m.variant = "StatusPush" =>
        \A x \in {m.cpu_usage, m.memory_usage, m.disk_usage} : x.class = "finite"

C11_DataFrame(frame) ==
    /\ ~C2_Rejects(frame)
    /\ At(frame, 1) = 2
    /\ DeclaredLength(frame) >= 1

\* C11: decode_ecnp returns an error for every Data frame whose first payload
\* byte is in the reserved range 0x14..0x1F, also when the bytes after it are
\* the JSON text of a message.
C11_ReservedRejected ==
    (/\ sync_last.op = "decode_ecnp"
     /\ C11_DataFrame(sync_last.frame)
     /\ At(sync_last.frame, 6) \in 20..31)
        => ~sync_last.res.ok

\* C12: decode_ecnp fails with InvalidParameter on a buffer the ECNP decoder
\* rejects, on a frame whose message type is not Data and on a frame with an
\* empty payload; it returns a message only for a Data frame with at least
\* one payload byte, and the sub-type it returns is that byte.
C12_DecodeRejects ==
    sync_last.op \in {"decode_ecnp", "decode_encoded"} =>
        LET f == sync_last.frame
            r == sync_last.res
        IN  /\ C2_Rejects(f) => IsErr(r, "InvalidParameter")
            /\ (~C2_Rejects(f) /\ At(f, 1) # 2) => IsErr(r, "InvalidParameter")
            /\ (~C2_Rejects(f) /\ DeclaredLength(f) = 0) => IsErr(r, "InvalidParameter")
            /\ r.ok => (C11_DataFrame(f) /\ r.val[1] = At(f, 6))

\* decode_ecnp has refused the Heartbeat frame that carries b"dummy", and the
\* same payload behind a sub-type byte in a Heartbeat frame
C12_Witness ==
    /\ sync_last.op = "decode_ecnp"
    /\ ~C2_Rejects(sync_last.frame)
    /\ At(sync_last.frame, 1) = 4
    /\ DeclaredLength(sync_last.frame) = 5
    /\ IsErr(sync_last.res, "InvalidParameter")

(***************************************************************************)
(* Claims about the sync client                                            *)
(***************************************************************************)
\* the connect call has returned res
C13_Returned(res) == conn.pc = "done" /\ conn.res = Some(res)

\* C13: connect sets Connecting, then Handshaking once the TCP stream is up,
\* and sends the Handshake frame; its await points follow in the order TCP
\* establish, write, flush, header read, payload read; it returns Ok only from
\* the read of a reply whose type byte is Ack, with state Connected and
\* is_connected() true; a reply read in full whose type byte is not Ack gives
\* ConnectionError, state Error and leaves the connected flag as it was; the
\* state becomes Connected in no other way.
C13_ConnectOrder ==
    [][/\ (client_last'.op = "connect" /\ client_last'.from \in {"idle", "done"}) =>
              client'.state = "Connecting"
       /\ (conn'.pc = "write" /\ conn.pc # "write") =>
              /\ conn.pc = "tcp"
              /\ client'.state = "Handshaking"
              /\ At(conn'.frame, 1) = 1
       /\ (conn'.pc = "flush" /\ conn.pc # "flush") => conn.pc = "write"
       /\ (conn'.pc = "read_header" /\ conn.pc # "read_header") => conn.pc = "flush"
       /\ (conn'.pc = "read_payload" /\ conn.pc # "read_payload") => conn.pc = "read_header"
       /\ (client_last'.op = "connect" /\ C13_Returned(Ok("unit"))') =>
              /\ conn.pc \in {"read_header", "read_payload"}
              /\ conn'.header_buf[2] = 5
              /\ client'.state = "Connected"
              /\ client'.connected
       /\ (/\ client_last'.op = "connect"
           /\ client_last'.outcome = "ok"
           /\ conn.pc \in {"read_header", "read_payload"}
           /\ conn'.pc = "done"
           /\ conn'.header_buf[2] # 5) =>
              /\ conn'.res = Some(Err("ConnectionError"))
              /\ client'.state = "Error"
              /\ client'.connected = client.connected
       /\ (client'.state = "Connected" /\ client.state # "Connected") =>
              (client_last'.op = "connect" /\ C13_Returned(Ok("unit"))')
      ]_vars

\* a connect has returned Ok after an Ack with a two-byte payload
C13_Witness ==
    /\ client_last.op = "connect"
    /\ client_last.from = "read_payload"
    /\ C13_Returned(Ok("unit"))
    /\ conn.header_buf = <<1, 5, 0, 0, 0, 2>>
    /\ client.state = "Connected"
    /\ client.connected

\* C14: when the TCP establish or a read of connect times out, connect returns
\* TimeoutError and the state of the client is Error.
C14_TimeoutLeavesError ==
    (client_last.op = "connect" /\ client_last.outcome = "timeout") =>
        (C13_Returned(Err("TimeoutError")) /\ client.state = "Error")

\* C15: the connected flag goes from false to true only in the step in which a
\* connect call returns Ok; a connect that fails, and one that is dropped at
\* an await point, leave it as it was.
C15_ConnectedOnlyByOk ==
    [][/\ (client'.connected /\ ~client.connected) =>
              (client_last'.op = "connect" /\ C13_Returned(Ok("unit"))')
       /\ (client_last'.op = "connect" /\ conn'.pc = "done" /\ ~conn'.res.val.ok) =>
              client'.connected = client.connected
       /\ client_last'.op = "cancel" => client'.connected = client.connected
      ]_vars

\* a connect was dropped while it waited for the payload of an Ack, a connect
\* with an address that does not parse has failed, and the flag is false
C15_Witness ==
    /\ ~client.connected
    /\ \/ client_last.op = "cancel" /\ client_last.from = "read_payload"
       \/ /\ client_last.op = "connect"
          /\ client_last.from \in {"idle", "done"}
          /\ C13_Returned(Err("InvalidParameter"))

\* C16: shutdown leaves connected = false, shutdown = true and state =
\* Disconnected whatever the client was; a second shutdown changes nothing;
\* the counters, last_config_hash and last_status are never changed by it.
C16_Shutdown ==
    /\ [](client_last.op = "shutdown" =>
            /\ ~client.connected
            /\ client.shutdown
            /\ client.state = "Disconnected"
            /\ SyncClient_shutdown(client) = client)
    /\ [][client_last'.op = "shutdown" =>
            /\ client'.messages_sent = client.messages_sent
            /\ client'.messages_received = client.messages_received
            /\ client'.last_config_hash = client.last_config_hash
            /\ client'.last_status = client.last_status
            /\ client'.reconnect_count = client.reconnect_count
            /\ client'.config = client.config]_vars

\* shutdown has run on a client that a connect had made Connected and that had
\* sent and received a message
C16_Witness ==
    /\ client_last.op = "shutdown"
    /\ C13_Returned(Ok("unit"))
    /\ client.messages_sent = 1
    /\ client.messages_received = 1
    /\ client.last_config_hash.some
    /\ ~client.connected
    /\ client.state = "Disconnected"

(***************************************************************************)
(* Claims about the sync calls of the engine                               *)
(***************************************************************************)
\* the result of the engine call that the step made
C17_Result ==
    IF engine_last.op = "sync_connect" THEN econn.call.res ELSE Some(engine_last.res)

\* the step changes nothing of the engine
C17_NoChange ==
    /\ sync_client' = sync_client
    /\ UNCHANGED <<codecVars, policyVars, sessionVars, threadVars, syncVars, clientVars>>

\* the claim as the spec states it: with the slot empty, all four calls fail
C17_AsStated ==
    [][(/\ ~sync_client.some
        /\ engine_last'.op \in {"sync_connect", "sync_remote_exec",
                                 "sync_process_incoming", "sync_shutdown"}) =>
            (C17_Result' = Some(Err("InvalidParameter")) /\ C17_NoChange)]_vars

\* C17: while the sync-client slot is empty, sync_connect, sync_remote_exec and
\* sync_process_incoming fail with InvalidParameter, sync_shutdown returns Ok
\* and sync_is_connected returns false; none of them changes the engine.
C17_EmptySlot ==
    [][~sync_client.some =>
          /\ engine_last'.op \in {"sync_connect", "sync_remote_exec", "sync_process_incoming"} =>
                (C17_Result' = Some(Err("InvalidParameter")) /\ C17_NoChange)
          /\ engine_last'.op = "sync_shutdown" =>
                (C17_Result' = Some(Ok("unit")) /\ C17_NoChange)
          /\ engine_last'.op = "sync_is_connected" =>
                (C17_Result' = Some(FALSE) /\ C17_NoChange)]_vars

\* sync_remote_exec has failed with InvalidParameter on an engine without a sync client
C17_Witness ==
    /\ ~sync_client.some
    /\ engine_last.op = "sync_remote_exec"
    /\ IsErr(engine_last.res, "InvalidParameter")

(***************************************************************************)
(* Claims about the engine calls that touch the identity manager           *)
(***************************************************************************)
\* C18: no engine method ever holds two component locks at the same time: in
\* every state, each thread inside create_session or create_heartbeat (or any
\* other call) holds at most one of the identity manager's and the session
\* manager's locks, the identity lock being released before the session lock
\* is taken.
C18_OneLockAtATime == \A t \in Threads : Cardinality(HeldLocks(t)) <= 1

\* the thread takes the step of its call that reads the identity manager
C19_ReadsIdentity(t) == callers[t].pc = "identity" /\ callers'[t].pc # "identity"

\* C19: before the first generate_identity, get_identity, get_secret_key and
\* get_public_key fail with InternalError, and so do the engine's
\* create_session, create_ecm and create_heartbeat; a create_session that fails
\* comes straight from its read of the identity manager and leaves the session
\* manager as it was.  After a generate_identity, get_identity returns the
\* identity that the last generate_identity returned.
C19_IdentityLifecycle ==
    /\ [](~last_generated.some =>
             /\ IsErr(get_identity(identity_manager), "InternalError")
             /\ IsErr(get_secret_key(identity_manager), "InternalError")
             /\ IsErr(get_public_key(identity_manager), "InternalError"))
    /\ [][\A t \in Threads :
             /\ (/\ C19_ReadsIdentity(t)
                 /\ ~last_generated.some
                 /\ callers[t].call.op # "generate_identity")
                => /\ callers'[t].pc = "return"
                   /\ IsErr(callers'[t].res, "InternalError")
             /\ (/\ callers[t].pc = "return"
                 /\ callers'[t].pc = "idle")
                => /\ id_last'.thread = t
                   /\ id_last'.op = callers[t].call.op
                   /\ id_last'.res = callers[t].res
             /\ (/\ callers[t] # callers'[t]
                 /\ callers[t].pc # "idle"
                 /\ callers[t].call.op = "create_session"
                 /\ \/ callers'[t].pc = "return" /\ ~callers'[t].res.ok
                    \/ callers[t].pc = "return" /\ ~callers[t].res.ok)
                => /\ sessions' = sessions
                   /\ callers[t].pc \in {"identity", "return"}
                   /\ session_lock # t
             /\ (/\ C19_ReadsIdentity(t)
                 /\ callers[t].call.op = "generate_identity")
                => /\ last_generated'.some
                   /\ callers'[t].res = Ok(last_generated'.val)
             /\ (/\ C19_ReadsIdentity(t)
                 /\ last_generated.some
                 /\ callers[t].call.op = "get_identity")
                => callers'[t].res = Ok(last_generated.val)]_vars

\* a create_session made before the first generate_identity has returned
\* InternalError, and the session manager holds no session
C19_Witness ==
    /\ ~last_generated.some
    /\ id_last.op = "create_session"
    /\ IsErr(id_last.res, "InternalError")
    /\ sessions = SessionManager_new

\* the three fields of the manager come from one generate_identity
C34_Complete(self) ==
    /\ self.signing_key.some
    /\ self.x25519_secret.some
    /\ self.identity.some
    /\ self.x25519_secret.val = StaticSecret_random(self.signing_key.val.ed25519_secret)
    /\ self.identity.val.public_key_hex = hex_encode(verifying_key(self.signing_key.val))
    /\ self.identity.val.device_id = Uuid_to_string(self.signing_key.val.ed25519_secret)

\* C34: in every state the identity record, the signing key and the
\* key-agreement secret of the IdentityManager are all absent, or all present
\* and those of one generate_identity; the manager only changes in the step of
\* a generate_identity made by the thread holding the identity lock, which
\* replaces all three; and no step changes the key of a session that stays in
\* the session manager, a generate_identity changing no session at all.
C34_IdentityAllOrNone ==
    /\ [](identity_manager = IdentityManager_new \/ C34_Complete(identity_manager))
    /\ [][identity_manager' # identity_manager =>
             /\ \E t \in Threads :
                   /\ identity_lock = t
                   /\ callers[t].pc = "identity"
                   /\ callers[t].call.op = "generate_identity"
                   /\ callers'[t].pc = "return"
                   /\ callers'[t].res = Ok(identity_manager'.identity.val)
             /\ identity_manager'.signing_key # identity_manager.signing_key
             /\ identity_manager'.x25519_secret # identity_manager.x25519_secret
             /\ identity_manager'.identity # identity_manager.identity
             /\ sessions' = sessions]_vars
    /\ [][\A sid \in DOMAIN sessions \cap DOMAIN sessions' :
             sessions'[sid].session_key = sessions[sid].session_key]_vars

\* a second generate_identity has returned after a session was created: the
\* session still has the key derived from the first identity's secret
C34_Witness ==
    /\ id_last.op = "generate_identity"
    /\ identity_manager.x25519_secret = Some(StaticSecret_random(2))
    /\ \E sid \in DOMAIN sessions : \E pk \in RemotePublics :
          sessions[sid].session_key = hkdf_expand(diffie_hellman(StaticSecret_random(1), pk))

(***************************************************************************)
(* Claims about the peer registry                                          *)
(***************************************************************************)
\* C20: peer identifiers are unique in the registry: every entry is stored
\* under the identifier its info carries, and list_peers has one info per
\* identifier.  An add_peer with an identifier already present replaces that
\* entry as a whole (count unchanged; name, type, address and capabilities are
\* the new ones, the connected flag is false), an add_peer with a new
\* identifier raises the count by one, and in both cases every other entry is
\* unchanged.
C20_AddPeerReplaces ==
    /\ [](/\ \A id \in DOMAIN peer_manager : peer_manager[id].info.peer_id = id
          /\ Cardinality(list_peers(peer_manager)) = count(peer_manager)
          /\ \A a, b \in list_peers(peer_manager) : a.peer_id = b.peer_id => a = b)
    /\ [][peer_last'.op = "add_peer" =>
             LET id == peer_last'.peer_id
                 d == peer_last'.desc
             IN  /\ count(peer_manager') =
                       IF id \in DOMAIN peer_manager THEN count(peer_manager)
                       ELSE count(peer_manager) + 1
                 /\ DOMAIN peer_manager' = DOMAIN peer_manager \cup {id}
                 /\ peer_manager'[id].info =
                       [peer_id |-> id,
                        device_name |-> d.device_name,
                        device_type |-> d.device_type,
                        address |-> d.address,
                        capabilities |-> d.capabilities,
                        last_seen |-> to_rfc3339(now),
                        is_connected |-> FALSE]
                 /\ peer_manager'[id].discovered_at = now
                 /\ peer_last'.res = peer_manager'[id].info
                 /\ \A other \in DOMAIN peer_manager \ {id} :
                       peer_manager'[other] = peer_manager[other]]_vars

\* peer-1 was just added again under a new name, later than its first
\* discovery, next to peer-2, which is still connected: two entries, peer-1
\* not connected
C20_Witness ==
    /\ peer_last.op = "add_peer"
    /\ peer_last.peer_id = "peer-1"
    /\ peer_last.desc.device_name = "NewName"
    /\ now > 0
    /\ count(peer_manager) = 2
    /\ peer_manager["peer-2"].info.is_connected
    /\ peer_manager["peer-2"].discovered_at = 0
    /\ ~peer_manager["peer-1"].info.is_connected
    /\ peer_manager["peer-1"].discovered_at = now

C22_RecentlySeenKept ==
    [][peer_last'.op = "cleanup_stale" =>
          \A id \in DOMAIN peer_manager :
             peer_manager[id].info.last_seen.rfc3339 > now - peer_last'.timeout_secs
                => id \in DOMAIN peer_manager']_vars

(***************************************************************************)
(* Claims about determine_connection_strategy                              *)
(***************************************************************************)
\* the inputs of a recorded call
C23_Inputs(call) == <<call.preference, call.ble_device_available, call.lan_address>>

\* C23: determine_connection_strategy is a pure function (two calls with the
\* same inputs give the same result) whose result is: BleFirst -> transport
\* BleFirst, should_use_tcp exactly when no BLE device is available; TcpLan ->
\* transport TcpLan, should_use_tcp; Auto with BLE and a LAN address ->
\* transport Auto, should_use_tcp; Auto with a LAN address only -> transport
\* TcpLan, should_use_tcp; Auto with no LAN address -> transport BleFirst, not
\* should_use_tcp, desktop_address absent.
C23_StrategyTable ==
    strategy_last.op = "determine_connection_strategy" =>
       LET preference == strategy_last.preference
           ble == strategy_last.ble_device_available
           lan == strategy_last.lan_address
           res == strategy_last.res
       IN  /\ (/\ strategy_prev.op = "determine_connection_strategy"
               /\ C23_Inputs(strategy_prev) = C23_Inputs(strategy_last))
              => strategy_prev.res = res
           /\ preference = "BleFirst" =>
                 res.transport = "BleFirst" /\ (res.should_use_tcp <=> ~ble)
           /\ preference = "TcpLan" =>
                 res.transport = "TcpLan" /\ res.should_use_tcp
           /\ (preference = "Auto" /\ ble /\ lan.some) =>
                 res.transport = "Auto" /\ res.should_use_tcp
           /\ (preference = "Auto" /\ ~ble /\ lan.some) =>
                 res.transport = "TcpLan" /\ res.should_use_tcp
           /\ (preference = "Auto" /\ ~lan.some) =>
                 /\ res.transport = "BleFirst"
                 /\ ~res.should_use_tcp
                 /\ ~res.desktop_address.some

\* Auto was asked for with neither a BLE device nor a LAN address, after a
\* call with other inputs
C23_Witness ==
    /\ strategy_last.op = "determine_connection_strategy"
    /\ strategy_prev.op = "determine_connection_strategy"
    /\ strategy_last.preference = "Auto"
    /\ ~strategy_last.ble_device_available
    /\ ~strategy_last.lan_address.some
    /\ strategy_last.res.transport = "BleFirst"
    /\ strategy_prev.preference = "BleFirst"

\* C38: in every result of determine_connection_strategy, should_use_tcp = true
\* implies that desktop_address is present.
C38_TcpHasAddress ==
    strategy_last.op = "determine_connection_strategy" =>
       (strategy_last.res.should_use_tcp => strategy_last.res.desktop_address.some)

(***************************************************************************)
(* Claims about the messages of the sync client                            *)
(***************************************************************************)
\* C24: process_incoming on a frame that decodes to a SyncMessage raises
\* messages_received by exactly one and returns the message; a ConfigSync sets
\* last_config_hash to its config_hash, a StatusPush sets last_status to the
\* message, RemoteExec and RemoteExecResult leave both unchanged.  On a frame
\* that fails to decode it returns the error and changes nothing.  It never
\* changes messages_sent, the connected flag, the shutdown flag or the state.
C24_ProcessIncoming ==
    [][client_last'.op = "process_incoming" =>
          LET decoded == sync_decode_ecnp(client_last'.frame)
          IN  /\ client'.messages_sent = client.messages_sent
              /\ client'.connected = client.connected
              /\ client'.shutdown = client.shutdown
              /\ client'.state = client.state
              /\ ~decoded.ok =>
                    /\ client_last'.res = decoded
                    /\ client' = client
              /\ decoded.ok =>
                    LET msg == decoded.val[2]
                    IN  /\ client_last'.res = Ok(msg)
                        /\ client'.messages_received = client.messages_received + 1
                        /\ client'.last_config_hash =
                              IF msg.variant = "ConfigSync" THEN Some(msg.config_hash)
                              ELSE client.last_config_hash
                        /\ client'.last_status =
                              IF msg.variant = "StatusPush" THEN Some(msg)
                              ELSE client.last_status]_vars

\* a ConfigSync frame was processed: it was counted and its hash recorded
C24_Witness ==
    /\ client_last.op = "process_incoming"
    /\ client_last.res.ok
    /\ client_last.res.val.variant = "ConfigSync"
    /\ client.messages_received = 1
    /\ client.last_config_hash = Some(S_sha256_abc)

\* create_remote_exec returned a Data frame that decode_ecnp maps to
\* (0x11, RemoteExec{command, args}), and counted it in messages_sent
C25_FrameReturned ==
    LET res == client_last'.res
    IN  /\ res.ok
        /\ At(res.val, 1) = 2
        /\ sync_decode_ecnp(res.val) =
              Ok(<<17, RemoteExec(client_last'.command, client_last'.args)>>)
        /\ client'.messages_sent = client.messages_sent + 1

\* the call left everything but messages_sent as it was
C25_RestUnchanged == client' = [client EXCEPT !.messages_sent = client'.messages_sent]

\* the claim as stated: every create_remote_exec returns such a frame
C25_AsStated ==
    [][client_last'.op = "create_remote_exec" =>
          C25_FrameReturned /\ C25_RestUnchanged]_vars

\* C25: create_remote_exec(command, args), when the JSON text of
\* RemoteExec{command, args} is at most 1,048,575 bytes, returns an ECNP Data
\* frame that decode_ecnp maps to (0x11, RemoteExec{command, args}) and raises
\* messages_sent by exactly one; when the text is longer it fails with
\* InvalidParameter and raises nothing.  It works in any connection state and
\* leaves messages_received, connected, state and every other field unchanged.
C25_RemoteExecFrame ==
    [][client_last'.op = "create_remote_exec" =>
          /\ C25_RestUnchanged
          /\ IF BLen(to_bytes(RemoteExec(client_last'.command, client_last'.args)).val)
                   <= 1048575
             THEN C25_FrameReturned
             ELSE /\ IsErr(client_last'.res, "InvalidParameter")
                  /\ client'.messages_sent = client.messages_sent]_vars

\* "hostname -f" was framed on a client that never connected
C25_Witness ==
    /\ client_last.op = "create_remote_exec"
    /\ client_last.command = S_hostname
    /\ client_last.args = <<S_f>>
    /\ client_last.res.ok
    /\ client.messages_sent = 1
    /\ client.state = "Disconnected"
    /\ ~client.connected

(***************************************************************************)
(* Claims about bytes behind a frame                                       *)
(***************************************************************************)
\* C26: decode ignores the bytes beyond header + declared length: for a valid
\* frame f (the frame encode returned for a type and a payload) and a byte
\* string x, decode(f followed by x) succeeds with the version, type and
\* payload of f, the same result as decode(f).
C26_TrailingIgnored ==
    ecnp_last.op = "decode_trailing" =>
       /\ ecnp_last.res.ok
       /\ ecnp_last.res.val.version = ECNP_VERSION
       /\ ecnp_last.res.val.msg_type = MessageTypeCode(ecnp_last.msg_type)
       /\ ecnp_last.res.val.payload = ecnp_last.payload
       /\ ecnp_last.res = decode(ecnp_last.frame)

\* a frame with a two-byte payload was decoded with a long run of zeros behind it
C26_Witness ==
    /\ ecnp_last.op = "decode_trailing"
    /\ BLen(ecnp_last.payload) = 2
    /\ ecnp_last.trailer = Fill(0, MAX_PAYLOAD_SIZE)
    /\ BLen(ecnp_last.data) = HEADER_SIZE + 2 + MAX_PAYLOAD_SIZE
    /\ ecnp_last.res.ok

(***************************************************************************)
(* Claims about the flags of the sync client                               *)
(***************************************************************************)
\* C35: between operations on a SyncClient (no connect in flight),
\* is_connected() = true implies state() = Connected.
C35_ConnectedMeansConnected ==
    (conn.pc \in {"idle", "done"} /\ is_connected(client)) => SyncClient_state(client) = "Connected"

\* C36: in every state of a SyncClient, is_shutdown() = true implies
\* is_connected() = false, whatever connect calls were in flight or started
\* after the shutdown.
C36_ShutdownMeansDisconnected ==
    is_shutdown(client) => ~is_connected(client)

(***************************************************************************)
(* Claims about the connection seen through the engine                     *)
(***************************************************************************)
\* C37: a sync_is_connected() that follows a sync_connect that returned Ok,
\* with no sync_shutdown or init_sync in between, returns true.
C37_ConnectedAfterConnect ==
    [][(/\ engine_last.op = "sync_connect"
        /\ econn.call.pc = "done"
        /\ econn.call.res = Some(Ok("unit"))
        /\ engine_last'.op = "sync_is_connected") =>
            engine_last'.res = TRUE]_vars

(***************************************************************************)
(* Claims about the locks of the engine                                    *)
(***************************************************************************)
\* the order identity -> sessions -> peers -> sync
LockRank(l) ==
    CASE l = "identity_manager" -> 1
      [] l = "session_manager" -> 2
      [] l = "peer_manager" -> 3
      [] l = "sync_client" -> 4

\* some thread inside a method can take a step
C33_SomeStep == \E t \in Threads : L_Acquire(t) \/ L_Run(t) \/ L_Await(t)

\* C33: a thread that takes a component lock while it holds another takes
\* them in the order identity -> sessions -> peers -> sync; a thread at the
\* await of sync_connect holds no lock; whenever a thread is inside an engine
\* method some thread can take a step (no deadlock); and every call of a
\* method other than sync_connect returns, given that the scheduler runs
\* every thread and grants a lock to a thread that keeps waiting for it.
C33_OrderedLocks ==
    /\ [][\A t \in Threads : \A l \in Locks :
             (lock_owner'[l] = t /\ lock_owner[l] # t) =>
                \A h \in LocksHeld(t) : LockRank(h) < LockRank(l)]_vars
    /\ [](\A t \in Threads : LockStep(t).do = "await" => LocksHeld(t) = {})
    /\ []((\E t \in Threads : lock_calls[t].pc # 0) => ENABLED C33_SomeStep)
    /\ \A t \in Threads :
          (lock_calls[t].pc # 0 /\ lock_calls[t].op # "sync_connect") ~> (lock_calls[t].pc = 0)

\* t1 holds the identity and the session guard inside create_session while t2,
\* inside create_heartbeat with the identity still to take, waits
C33_Witness ==
    /\ lock_calls["t1"].op = "create_session"
    /\ LocksHeld("t1") = {"identity_manager", "session_manager"}
    /\ lock_calls["t2"].op = "create_heartbeat"
    /\ LockStep("t2") = Lock("identity_manager")
    /\ ~ENABLED L_Acquire("t2")

(***************************************************************************)
(* Claims about the life of a session in the manager                       *)
(***************************************************************************)
\* the session was created and is no longer in the manager
C31_Removed(sid) == sid \in DOMAIN emitted /\ sid \notin DOMAIN sessions

\* C31: a session leaves the manager only in a close_session or a
\* cleanup_expired step; no step changes the key, the peer, the creation time
\* or the expiry time of a session that stays; close_session of an absent
\* identifier fails with InvalidParameter and changes nothing; and on the
\* identifier of a removed session get_session, encrypt, decrypt of a frame of
\* at least 12 bytes and close_session fail with InvalidParameter.  The
\* subscript changes exactly when vars does; it names the operation first, so
\* that two steps are told apart before their results of unlike shape are.
C31_LeavesOnlyByRemoval ==
    [][/\ (DOMAIN sessions \ DOMAIN sessions' # {}) =>
             sess_last'.op \in {"close_session", "cleanup_expired"}
       /\ \A id \in DOMAIN sessions \cap DOMAIN sessions' :
             /\ sessions'[id].session_key = sessions[id].session_key
             /\ sessions'[id].peer_id = sessions[id].peer_id
             /\ sessions'[id].created_at = sessions[id].created_at
             /\ sessions'[id].expires_at = sessions[id].expires_at
       /\ (sess_last'.op = "close_session" /\ sess_last'.sid \notin DOMAIN sessions) =>
             /\ IsErr(sess_last'.res, "InvalidParameter")
             /\ sessions' = sessions
       /\ (/\ sess_last'.op \in {"get_session", "encrypt", "decrypt", "close_session"}
           /\ C31_Removed(sess_last'.sid)
           /\ sess_last'.op = "decrypt" => BLen(sess_last'.frame) >= 12) =>
             /\ IsErr(sess_last'.res, "InvalidParameter")
             /\ sessions' = sessions]_<<sess_last.op, vars>>

\* session 1 sent a frame and was removed; a decrypt of that frame on its
\* identifier has failed with InvalidParameter while session 2 is still held
C31_Witness ==
    /\ sess_last.op = "decrypt"
    /\ sess_last.sid = 1
    /\ C31_Removed(1)
    /\ Len(emitted[1]) = 1
    /\ sess_last.frame = emitted[1][1].frame
    /\ IsErr(sess_last.res, "InvalidParameter")
    /\ DOMAIN sessions = {2}

\* C32: cleanup_expired removes exactly the sessions whose expiry time is at or
\* before the current time, whether their state reads Established or Expired,
\* returns how many it removed, leaves the other sessions as they were, and
\* leaves no session whose expiry time has been reached.
C32_CleanupExact ==
    [][sess_last'.op = "cleanup_expired" =>
          LET gone == {id \in DOMAIN sessions : sessions[id].expires_at <= now}
          IN  /\ DOMAIN sessions' = DOMAIN sessions \ gone
              /\ sess_last'.res = Cardinality(gone)
              /\ \A id \in DOMAIN sessions' : sessions'[id] = sessions[id]
              /\ \A id \in DOMAIN sessions' : sessions'[id].expires_at > now']_vars

\* at the very second session 1 expires, marked Established or not, a
\* cleanup has removed it and only it: session 2, created later, is still held
C32_Witness ==
    /\ sess_last.op = "cleanup_expired"
    /\ sess_last.res = 1
    /\ now = SESSION_DURATION_SECS
    /\ C31_Removed(1)
    /\ DOMAIN sessions = {2}
    /\ sessions[2].created_at = SESSION_DURATION_SECS - 1
    /\ sessions[2].messages_sent = 1

\* C40: for every stored session whose expiry time has been reached,
\* active_sessions leaves it out and get_session reports its state as
\* "expired", whether or not an encrypt or a decrypt was attempted on it since.
C40_ReadsReflectExpiry ==
    [][/\ sess_last'.op = "active_sessions" =>
             \A id \in DOMAIN sessions :
                is_expired(sessions[id], now) =>
                   \A info \in sess_last'.res : info.session_id # id
       /\ (/\ sess_last'.op = "get_session"
           /\ sess_last'.sid \in DOMAIN sessions
           /\ is_expired(sessions[sess_last'.sid], now)) =>
             /\ sess_last'.res.ok
             /\ sess_last'.res.val.state = "expired"]_vars

(***************************************************************************)
(* Claims about the width of the nonce counter                             *)
(***************************************************************************)
\* the counter was the nonce of an earlier encrypt of the session
C39_Emitted(session, counter) ==
    \/ u64_lt(counter, session.advanced)
    \/ \E i \in 1..Len(session.nonces) : session.nonces[i] = counter

C27_KeyNonce(frame) == <<SealedPart(frame).doc.key, SealedPart(frame).doc.nonce>>

\* C27: the sessions that two managers create from complementary key pairs
\* (session 1 of A and session 1 of B) have the same session key, and each
\* starts its nonce counter at 0; a frame encrypted on one side decrypts to
\* its plaintext on the other while the session there has not expired; and the k-th frame of A and the k-th frame of B
\* are sealed under the same key and the same nonce.
C27_SharedKeySameNonces ==
    /\ []((1 \in DOMAIN managers["A"] /\ 1 \in DOMAIN managers["B"]) =>
             managers["A"][1].session_key = managers["B"][1].session_key)
    /\ [](\A f, g \in wire :
             (f.from # g.from /\ f.sid = 1 /\ g.sid = 1 /\ f.index = g.index) =>
                C27_KeyNonce(f.frame) = C27_KeyNonce(g.frame))
    /\ [][/\ chan_last'.op = "create_session" =>
                managers'[chan_last'.side][chan_last'.sid].nonce_counter = 0
          /\ chan_last'.op = "decrypt" =>
                \A w \in wire :
                   (/\ w.frame = chan_last'.frame
                    /\ w.from = OtherSide(chan_last'.side)
                    /\ w.sid = 1
                    /\ chan_last'.sid = 1
                    /\ ~is_expired(managers[chan_last'.side][1], now))
                      => chan_last'.res = Ok(w.plaintext)]_vars

\* nonce reuse is reached: A and B have each sealed a different plaintext under
\* the same key and nonce, and B has decrypted a frame of A
C27_Witness ==
    /\ \E f, g \in wire :
          /\ f.from = "A"
          /\ g.from = "B"
          /\ f.plaintext # g.plaintext
          /\ C27_KeyNonce(f.frame) = C27_KeyNonce(g.frame)
    /\ chan_last.op = "decrypt"
    /\ chan_last.side = "B"
    /\ chan_last.res = Ok(TestMessage)

\* C28: encrypt and decrypt on a session identifier that is not in the manager
\* fail with InvalidParameter; decrypt of a frame shorter than 12 bytes fails
\* with InvalidParameter whether the session is missing, expired or valid (the
\* length is checked before the lookup and the expiry); in all these cases the
\* manager's sessions are left as they were.
C28_MissingOrShort ==
    [][/\ (sess_last'.op = "encrypt" /\ sess_last'.sid \notin DOMAIN sessions) =>
             /\ IsErr(sess_last'.res, "InvalidParameter")
             /\ sessions' = sessions
       /\ (/\ sess_last'.op = "decrypt"
           /\ (sess_last'.sid \notin DOMAIN sessions \/ BLen(sess_last'.frame) < 12)) =>
             /\ IsErr(sess_last'.res, "InvalidParameter")
             /\ sessions' = sessions]_vars

\* a frame of 11 bytes was handed to an expired session: InvalidParameter, and
\* the session is still recorded as Established, its counters as before
C28_Witness ==
    /\ sess_last.op = "decrypt"
    /\ BLen(sess_last.frame) = 11
    /\ sess_last.sid \in DOMAIN sessions
    /\ is_expired(sessions[sess_last.sid], now)
    /\ sessions[sess_last.sid].state = "Established"
    /\ sessions[sess_last.sid].nonce_counter = 1
    /\ IsErr(sess_last.res, "InvalidParameter")

\* the frame is one an encrypt returned, unaltered, under the key of the session
C29_Authentic(side, sid, frame) ==
    \E w \in wire :
       /\ w.frame = frame
       /\ managers[w.from][w.sid].session_key = managers[side][sid].session_key

\* C29: on an unexpired session, decrypt of a frame of at least 12 bytes that
\* does not authenticate under the session key and the frame's leading nonce
\* (altered ciphertext, altered nonce, a frame sealed under another session's
\* key) fails with CryptoError and leaves messages_received unchanged; a frame
\* that authenticates is opened whatever the receiver's nonce counter is; and
\* decrypt never changes the nonce counter or messages_sent.
C29_ForgedRejected ==
    [][chan_last'.op = "decrypt" =>
          LET side == chan_last'.side
              sid == chan_last'.sid
              frame == chan_last'.frame
              before == managers[side][sid]
              after == managers'[side][sid]
          IN  /\ after.nonce_counter = before.nonce_counter
              /\ after.messages_sent = before.messages_sent
              /\ (BLen(frame) >= 12 /\ ~is_expired(before, now)) =>
                    IF C29_Authentic(side, sid, frame)
                    THEN /\ chan_last'.res.ok
                         /\ after.messages_received = before.messages_received + 1
                    ELSE /\ IsErr(chan_last'.res, "CryptoError")
                         /\ managers' = managers]_vars

\* the session A holds with a third party was handed a frame B sealed for its
\* session with A, after A had encrypted: CryptoError, nothing counted
C29_Witness ==
    /\ chan_last.op = "decrypt"
    /\ chan_last.side = "A"
    /\ chan_last.sid = 2
    /\ \E w \in wire : w.from = "B" /\ w.frame = chan_last.frame
    /\ IsErr(chan_last.res, "CryptoError")
    /\ managers["A"][2].messages_received = 0
    /\ managers["A"][2].nonce_counter = 1

\* C30: create_session always adds exactly one new session, under an
\* identifier that no existing session has, in state Established with nonce
\* counter 0, messages_sent = messages_received = 0 and expiry = creation time
\* + 3600 s; it replaces and modifies no existing session, so that several
\* sessions for one peer identifier coexist.
C30_CreateAddsOne ==
    [][chan_last'.op = "create_session" =>
          LET side == chan_last'.side
              sid == chan_last'.sid
              before == managers[side]
              after == managers'[side]
          IN  /\ chan_last'.res.ok
              /\ sid \notin DOMAIN before
              /\ DOMAIN after = DOMAIN before \cup {sid}
              /\ Cardinality(DOMAIN after) = Cardinality(DOMAIN before) + 1
              /\ \A id \in DOMAIN before : after[id] = before[id]
              /\ after[sid].session_id = sid
              /\ after[sid].state = "Established"
              /\ after[sid].nonce_counter = 0
              /\ after[sid].messages_sent = 0
              /\ after[sid].messages_received = 0
              /\ after[sid].created_at = now
              /\ after[sid].expires_at = now + 3600
              /\ chan_last'.res.val = to_info(after[sid])
              /\ managers'[OtherSide(side)] = managers[OtherSide(side)]]_vars

\* A has just created a second session for the peer of its first one, later
\* than the first, which has sent a message and is still there
C30_Witness ==
    /\ chan_last.op = "create_session"
    /\ chan_last.side = "A"
    /\ chan_last.sid = 2
    /\ DOMAIN managers["A"] = {1, 2}
    /\ managers["A"][1].peer_id = managers["A"][2].peer_id
    /\ managers["A"][1].messages_sent = 1
    /\ managers["A"][2].created_at > managers["A"][1].created_at

====
